---- MODULE Spec2Model ----
(***************************************************************************)
(* The ID-mask graph compiler of T8_Tools (src/shader_tools/id_system.py)  *)
(* and its modifier pause tool (src/quick_tools/modifier_pause.py).        *)
(*                                                                         *)
(* State: the per-material settings (id_use_1..16, split_rgba), the node   *)
(* groups of bpy.data.node_groups (the ID Core group and the mix-chain     *)
(* groups), the material's node tree, the image datablocks, the values of  *)
(* the Add ID Mix dialog and the type of the last report.  One action per  *)
(* operator (Init Masks, Build Split, Add ID Mix (Color), Add ID Mix       *)
(* (Normal)), one for the edit of an id_use checkbox in the panel, one for *)
(* the dialog of the Add ID Mix operators, and one for a Build Split whose *)
(* core rebuild raises part-way.  Set Active Paint ID works on the paint   *)
(* settings and the preview nodes of the material; the choice of the paint *)
(* id and the loss or return of the active material in the context are     *)
(* actions of the user.  The modifier pause tool has its own state: the    *)
(* modifiers of the scene and the pause settings, with one action for      *)
(* Snapshot & Pause, one for Restore, and the user's edits of a modifier's *)
(* visibility and of the settings.                                         *)
(*                                                                         *)
(* Node graphs are kept as the code builds them: a sequence of nodes in    *)
(* creation order and a set of links between sockets.  The value a graph   *)
(* computes is obtained by evaluating its nodes (Out / In below), never by *)
(* a formula assumed for it.                                               *)
(*                                                                         *)
(* Numbers.  Shader values are reals; they are represented exactly as      *)
(* integer multiples of 1/Scale, where Scale = GrayDen * 2^4: the gray     *)
(* levels are multiples of 1/GrayDen, the mask values explored are 0, 1/2  *)
(* and 1, and a chain has at most four blend stages, so every product      *)
(* taken below is an exact multiple of 1/Scale.  Rounding of the host's    *)
(* 32-bit floats is not modelled.                                          *)
(*                                                                         *)
(* Sockets.  A socket of a built-in node is named by its Python index      *)
(* (mix.inputs[1] is socket 1).  A socket of a Group Input / Group Output  *)
(* node, or of a group node in the material, is named by its position in   *)
(* the group's interface (1-based); a lookup by name resolves to the first *)
(* interface socket of that name, as bpy's collections do.                 *)
(***************************************************************************)
EXTENDS Integers, Sequences, FiniteSets, TLC

VARIABLES
    id_use,       \* settings.id_use_1 .. id_use_16
    split_rgba,   \* settings.split_rgba
    node_groups,  \* bpy.data.node_groups, in creation order
    nt,           \* material.node_tree (and material.use_nodes)
    images,       \* bpy.data.images, by name
    mix_props,    \* num_slots, id1..id4 of the Add ID Mix dialog
    report,       \* the type of the last operator's report ("" before the first)
    edits,        \* checkbox edits so far (bounds the exploration)
    dialogs,      \* dialog edits so far (bounds the exploration)
    rebuilds,     \* history: core builds since the last checkbox edit (2: two or more)
    refreshed,    \* history: the last core build found a core built before the last edit
    mix_found,    \* history: what the last Add ID Mix found (stale: a core built before
                  \* the last edit; chains: the number of chain groups)
    ctx_mat,      \* get_active_material(context) finds the material (FALSE: None)
    paint,        \* settings.active_paint_id, temp_bsdf_name, temp_output_name,
                  \* prev_output_name, and the canvas of the image paint tool
    mods,         \* the modifiers of the scene's objects: type, show_viewport, show_render
    pause_settings, \* affect_viewport, affect_render, exclude_types, snapshot_json
    pause_hist    \* history: the Snapshot & Pause runs since the last Restore (k), the
                  \* modifiers before the first and before the last of them, and
                  \* whether the last step was a Restore

id_vars == <<id_use, split_rgba, node_groups, nt, images, mix_props, edits, dialogs,
             rebuilds, refreshed, mix_found>>

pause_vars == <<mods, pause_settings, pause_hist>>

vars == <<id_use, split_rgba, node_groups, nt, images, mix_props, report, edits, dialogs,
          rebuilds, refreshed, mix_found, ctx_mat, paint, mods, pause_settings, pause_hist>>

(***************************************************************************)
(* Bounds of the exploration                                               *)
(***************************************************************************)

\* checkbox edits explored in one behaviour of Spec
MaxEdits == 1

\* edits of the Add ID Mix dialog explored in one behaviour of SpecKeys
MaxDialogs == 2

\* the checkboxes edited in a behaviour of Spec are those of the ids
\* 1..FlagIdLow and 16
FlagIdLow == 2

\* configurations SpecCompose starts from have at most MaxActive set flags
\* (or set flags in one channel only)
MaxActive == 3

\* mix-chain groups created in one behaviour
MaxChains == 2

\* SpecPaint picks the paint id among 1..PaintIdLow
PaintIdLow == 2

\* consecutive Snapshot & Pause runs explored in one behaviour of SpecPause
MaxPauses == 2

\* SpecMix draws the ids of a mix request from 1..MixIdLow and 16
MixIdLow == 3

(***************************************************************************)
(* Program constants                                                       *)
(***************************************************************************)

\* identifiers 1..NumIDs (id_use_1 .. id_use_16)
NumIDs == 16

\* the gray levels of ID_RANGE_PRESETS are written in thousandths
GrayDen == 1000

\* largest num_slots of the Add ID Mix operators (a channel, too, holds 4 ids)
MaxSlots == 4

IDs == 1..NumIDs

RECURSIVE Pow(_, _)
Pow(b, e) == IF e = 0 THEN 1 ELSE b * Pow(b, e - 1)

Scale == GrayDen * Pow(2, MaxSlots)

One == Scale

\* x/1000 as a multiple of 1/Scale
Milli(x) == x * (Scale \div GrayDen)

\* the product of a and b, both multiples of 1/Scale
Times(a, b) == (a * b) \div Scale

ID_CHANNEL_MAP ==
    [i \in IDs |->
        CASE i = 1 -> <<"R", 1>> [] i = 2 -> <<"R", 2>>
          [] i = 3 -> <<"R", 3>> [] i = 4 -> <<"R", 4>>
          [] i = 5 -> <<"G", 1>> [] i = 6 -> <<"G", 2>>
          [] i = 7 -> <<"G", 3>> [] i = 8 -> <<"G", 4>>
          [] i = 9 -> <<"B", 1>> [] i = 10 -> <<"B", 2>>
          [] i = 11 -> <<"B", 3>> [] i = 12 -> <<"B", 4>>
          [] i = 13 -> <<"A", 1>> [] i = 14 -> <<"A", 2>>
          [] i = 15 -> <<"A", 3>> [] i = 16 -> <<"A", 4>>]

\* (low, high) pairs per number of used ids of a channel
\* a variant: 0.512 for the 0.521 of the four-id list
ID_RANGE_PRESETS_typo ==
    [n \in 0..4 |->
        CASE n = 0 -> <<>>
          [] n = 1 -> << <<Milli(1000), Milli(1000)>> >>
          [] n = 2 -> << <<Milli(50), Milli(50)>>, <<Milli(1000), Milli(1000)>> >>
          [] n = 3 -> << <<Milli(80), Milli(80)>>, <<Milli(397), Milli(397)>>,
                         <<Milli(1000), Milli(1000)>> >>
          [] n = 4 -> << <<Milli(50), Milli(50)>>, <<Milli(212), Milli(212)>>,
                         <<Milli(512), Milli(512)>>, <<Milli(1000), Milli(1000)>> >>]

\* a variant: 1.05 for the 0.05 of the two-id list
ID_RANGE_PRESETS_above ==
    [n \in 0..4 |->
        CASE n = 0 -> <<>>
          [] n = 1 -> << <<Milli(1000), Milli(1000)>> >>
          [] n = 2 -> << <<Milli(1050), Milli(1050)>>, <<Milli(1000), Milli(1000)>> >>
          [] n = 3 -> << <<Milli(80), Milli(80)>>, <<Milli(397), Milli(397)>>,
                         <<Milli(1000), Milli(1000)>> >>
          [] n = 4 -> << <<Milli(50), Milli(50)>>, <<Milli(212), Milli(212)>>,
                         <<Milli(521), Milli(521)>>, <<Milli(1000), Milli(1000)>> >>]

ID_RANGE_PRESETS ==
    [n \in 0..4 |->
        CASE n = 0 -> <<>>
          [] n = 1 -> << <<Milli(1000), Milli(1000)>> >>
          [] n = 2 -> << <<Milli(50), Milli(50)>>, <<Milli(1000), Milli(1000)>> >>
          [] n = 3 -> << <<Milli(80), Milli(80)>>, <<Milli(397), Milli(397)>>,
                         <<Milli(1000), Milli(1000)>> >>
          [] n = 4 -> << <<Milli(50), Milli(50)>>, <<Milli(212), Milli(212)>>,
                         <<Milli(521), Milli(521)>>, <<Milli(1000), Milli(1000)>> >>]

\* ID_RANGE_PRESETS.get(count, [])
PresetsGet(count) == IF count \in DOMAIN ID_RANGE_PRESETS THEN ID_RANGE_PRESETS[count] ELSE <<>>

\* the channels and id lists hard-coded in compute_id_ranges
ChannelNames == <<"R", "G", "B", "A">>

ChannelIdList(ch) ==
    CASE ch = "R" -> <<1, 2, 3, 4>>
      [] ch = "G" -> <<5, 6, 7, 8>>
      [] ch = "B" -> <<9, 10, 11, 12>>
      [] ch = "A" -> <<13, 14, 15, 16>>

\* the material's name (it holds no "." for name.replace(".", "_") to change)
MatName == "Mat"

\* f"{i:02d}"
Pad2(i) == IF i < 10 THEN "0" \o ToString(i) ELSE ToString(i)

\* f"ID{i:02d}_Mask"
MaskName(i) == "ID" \o Pad2(i) \o "_Mask"

\* f"{material.name}_ID{str(id_index).zfill(2)}"
id_image_name(i) == MatName \o "_ID" \o Pad2(i)

CoreGroupName == "ID_Core__" \o MatName

(***************************************************************************)
(* The host's node graphs                                                  *)
(***************************************************************************)

\* F(e) with e evaluated once, as a Python call binds its argument to a value
Bind(e, F(_)) == CHOOSE r \in {F(x) : x \in {e}} : TRUE

\* a node inside a node group; val is the default value the code sets on it
\* (outputs[0] of a Value node, inputs[0] of a Math node)
GNode(kind, op, val) == [kind |-> kind, op |-> op, val |-> val]

\* default_value of a Math node input the code leaves alone
MathDefault == One \div 2

Link(fn, fs, tn, ts) == [fn |-> fn, fs |-> fs, tn |-> tn, ts |-> ts]

\* collection[name] of an interface: the first socket of that name (0: none)
SocketIndex(decls, name) ==
    IF \E k \in 1..Len(decls) : decls[k].name = name
    THEN CHOOSE k \in 1..Len(decls) :
            /\ decls[k].name = name
            /\ \A j \in 1..(k - 1) : decls[j].name # name
    ELSE 0

\* io.new_socket(name=..., in_out=..., socket_type=...)
Sock(name, type) == [name |-> name, type |-> type]

\* group.nodes.new(...): the new node is the last of the sequence
NodesNew(g, node) == [g EXCEPT !.nodes = Append(@, node)]

\* links.new(from, to): an input socket keeps one link, the new one
LinksNew(links, l) == {k \in links : ~(k.tn = l.tn /\ k.ts = l.ts)} \cup {l}

GroupLink(g, fn, fs, tn, ts) == [g EXCEPT !.links = LinksNew(@, Link(fn, fs, tn, ts))]

\* a + t * (b - a), the MIX blend of a MixRGB node, per component
Lerp(a, b, t) == a + Times(t, b - a)

LerpColor(a, b, t) == [c \in 1..3 |-> Lerp(a[c], b[c], t)]

\* the Normal Map node (tangent space, strength 1) on a packed colour: each
\* component c unpacked to 2c - 1.  The rotation into the surface's tangent
\* frame and the normalisation that follow in the host are left out.
NormalMapDecode(color) == [c \in 1..3 |-> 2 * color[c] - One]

(***************************************************************************)
(* Evaluation of a node group.  Wired(g) is the group with its links       *)
(* indexed by the node and the input socket they enter (an input socket    *)
(* holds one link); env[k] is the value the host feeds into the k-th       *)
(* interface input.  Out is the value at output socket s of node n, In the *)
(* value at input socket s of node n: the value of the link's source, or   *)
(* the socket's default.                                                   *)
(***************************************************************************)
Wired(g) ==
    [nodes |-> g.nodes, outputs |-> g.outputs,
     out |-> CHOOSE n \in 1..Len(g.nodes) : g.nodes[n].kind = "GROUP_OUTPUT",
     src |-> [n \in 1..Len(g.nodes) |->
                LET into == {k \in g.links : k.tn = n}
                IN  [s \in {k.ts : k \in into} |-> CHOOSE k \in into : k.ts = s]]]

RECURSIVE Out(_, _, _, _)
RECURSIVE In(_, _, _, _)
Out(wg, n, s, env) ==
    LET nd == wg.nodes[n]
    IN  CASE nd.kind = "GROUP_INPUT" -> env[s]
          [] nd.kind = "VALUE" -> nd.val
          [] nd.kind = "MATH" ->
                LET a == In(wg, n, 0, env)
                    b == In(wg, n, 1, env)
                IN  (CASE nd.op = "SUBTRACT" -> a - b
                       [] nd.op = "MULTIPLY" -> Times(a, b)
                       [] nd.op = "ADD" -> a + b)
          [] nd.kind = "COMBRGB" ->
                <<In(wg, n, 0, env), In(wg, n, 1, env), In(wg, n, 2, env)>>
          [] nd.kind = "MIX_RGB" ->
                (CHOOSE r \in {LerpColor(a, b, t) : a \in {In(wg, n, 1, env)},
                                                     b \in {In(wg, n, 2, env)},
                                                     t \in {In(wg, n, 0, env)}} : TRUE)
          [] nd.kind = "SEPRGB" -> In(wg, n, 0, env)[s + 1]
          [] nd.kind = "NORMAL_MAP" ->
                (CHOOSE r \in {NormalMapDecode(color) : color \in {In(wg, n, 1, env)}} : TRUE)

In(wg, n, s, env) ==
    IF s \in DOMAIN wg.src[n]
    THEN Out(wg, wg.src[n][s].fn, wg.src[n][s].fs, env)
    ELSE IF wg.nodes[n].kind = "MATH" /\ s = 0 THEN wg.nodes[n].val ELSE MathDefault

\* the value the group delivers at its interface output called name (the
\* code creates exactly one Group Output node)
GroupOut(wg, name, env) == In(wg, wg.out, SocketIndex(wg.outputs, name), env)

(***************************************************************************)
(* Settings -> split numbers and gray levels                               *)
(***************************************************************************)

\* a variant: 9 for the 8 of the second call
CoreChannelIds_shifted(ch) ==
    CASE ch = "R" -> <<1, 2, 3, 4>>
      [] ch = "G" -> <<5, 6, 7, 9>>
      [] ch = "B" -> <<9, 10, 11, 12>>
      [] ch = "A" -> <<13, 14, 15, 16>>

\* the id lists of the four build_channel_value calls of build_id_core_group
CoreChannelIds(ch) ==
    CASE ch = "R" -> <<1, 2, 3, 4>>
      [] ch = "G" -> <<5, 6, 7, 8>>
      [] ch = "B" -> <<9, 10, 11, 12>>
      [] ch = "A" -> <<13, 14, 15, 16>>

Range(seq) == {seq[k] : k \in 1..Len(seq)}

\* a variant: the flags are not consulted
UsedIds_all(id_indices, use) == id_indices

\* a variant: the used ids in descending order
UsedIds_descending(id_indices, use) ==
    LET Used(i) == use[i]
        up == SelectSeq(id_indices, Used)
    IN  [k \in 1..Len(up) |-> up[Len(up) + 1 - k]]

\* [i for i in id_indices if getattr(settings, f"id_use_{i}")]
UsedIds(id_indices, use) ==
    LET Used(i) == use[i]
    IN  SelectSeq(id_indices, Used)

\* position of x in seq, counted from 0 as enumerate does
EnumIndex(seq, x) == (CHOOSE k \in 1..Len(seq) : seq[k] = x) - 1

\* a variant: the loop stops before the last id, as range(1, 16) would
RECURSIVE CountChannel_skipsLast(_, _, _)
CountChannel_skipsLast(use, ch, i) ==
    IF i >= NumIDs THEN 0
    ELSE (IF use[i] /\ ID_CHANNEL_MAP[i][1] = ch THEN 1 ELSE 0)
            + CountChannel_skipsLast(use, ch, i + 1)

\* r_count, g_count, b_count or a_count after the ids i..16
RECURSIVE CountChannel(_, _, _)
CountChannel(use, ch, i) ==
    IF i > NumIDs THEN 0
    ELSE (IF use[i] /\ ID_CHANNEL_MAP[i][1] = ch THEN 1 ELSE 0) + CountChannel(use, ch, i + 1)

compute_split_from_flags(use) ==
    <<CountChannel(use, "R", 1), CountChannel(use, "G", 1),
      CountChannel(use, "B", 1), CountChannel(use, "A", 1)>>

\* a variant: the preset is indexed by the id's slot in its channel
RangeEntry_bySlot(used_ids, id_index) ==
    LET presets == PresetsGet(Len(used_ids))
        idx == (id_index - 1) % 4
    IN  IF idx < Len(presets) THEN presets[idx + 1] ELSE <<0, 0>>

\* the entry of one used id: presets[idx] if idx < len(presets) else (0.0, 0.0)
RangeEntry(used_ids, id_index) ==
    LET presets == PresetsGet(Len(used_ids))
        idx == EnumIndex(used_ids, id_index)
    IN  IF idx < Len(presets) THEN presets[idx + 1] ELSE <<0, 0>>

compute_id_ranges(use) ==
    [i \in IDs |->
        LET ch == CHOOSE c \in Range(ChannelNames) : i \in Range(ChannelIdList(c))
            used_ids == UsedIds(ChannelIdList(ch), use)
        IN  IF use[i] THEN RangeEntry(used_ids, i) ELSE <<0, 0>>]

(***************************************************************************)
(* build_id_core_group                                                     *)
(***************************************************************************)

EmptyTree(name) == [name |-> name, inputs |-> <<>>, outputs |-> <<>>, nodes |-> <<>>, links |-> {}]

\* bpy.data.node_groups.get(name): its position, 0 for None
GroupsGet(groups, name) ==
    IF \E k \in 1..Len(groups) : groups[k].name = name
    THEN CHOOSE k \in 1..Len(groups) : groups[k].name = name
    ELSE 0

\* the interface of a new core group: RGB_ID, Alpha_ID and the 16 mask
\* outputs, then the 16 mask inputs (the 4.x and the pre-4.x branch declare
\* the same sockets in the same order)
CoreInterface(g) ==
    [g EXCEPT
        !.outputs = @ \o <<Sock("RGB_ID", "NodeSocketColor"), Sock("Alpha_ID", "NodeSocketFloat")>>
                      \o [i \in IDs |-> Sock(MaskName(i), "NodeSocketFloat")],
        !.inputs = @ \o [i \in IDs |-> Sock(MaskName(i), "NodeSocketFloat")]]

\* a variant: the sockets are declared at every build
DeclareInterface_always(g, is_new) == CoreInterface(g)

\* if is_new: declare the interface
DeclareInterface(g, is_new) == IF is_new THEN CoreInterface(g) ELSE g

\* a variant: output IDxx_Mask is fed by the input of the next id
PassThrough_shifted(g, n_in, n_out) ==
    LET new == {Link(n_in, SocketIndex(g.inputs, MaskName((i % NumIDs) + 1)),
                     n_out, SocketIndex(g.outputs, MaskName(i))) : i \in IDs}
    IN  [g EXCEPT !.links = {k \in @ : \A l \in new : ~(k.tn = l.tn /\ k.ts = l.ts)} \cup new]

\* for i in range(1, 17): group.links.new(n_in.outputs[name], n_out.inputs[name])
\* (the 16 links go into 16 different sockets, so their order is immaterial)
PassThrough(g, n_in, n_out) ==
    LET new == {Link(n_in, SocketIndex(g.inputs, MaskName(i)),
                     n_out, SocketIndex(g.outputs, MaskName(i))) : i \in IDs}
    IN  [g EXCEPT !.links = {k \in @ : \A l \in new : ~(k.tn = l.tn /\ k.ts = l.ts)} \cup new]

\* one pass of the loop of build_channel_value: diff, mul and add for id i,
\* from acc = [g: the group so far, sock: current_socket]
ChannelStage(acc, i, ranges, n_in) ==
    LET g0 == acc.g
        prev == acc.sock
        gray == ranges[i][1]
        diff == Len(g0.nodes) + 1
        mul == diff + 1
        add == diff + 2
        g1 == GroupLink(NodesNew(g0, GNode("MATH", "SUBTRACT", gray)), prev.n, prev.s, diff, 1)
        g2 == GroupLink(
                GroupLink(NodesNew(g1, GNode("MATH", "MULTIPLY", MathDefault)),
                          n_in, SocketIndex(g0.inputs, MaskName(i)), mul, 0),
                diff, 0, mul, 1)
        g3 == GroupLink(
                GroupLink(NodesNew(g2, GNode("MATH", "ADD", MathDefault)),
                          prev.n, prev.s, add, 0),
                mul, 0, add, 1)
    IN  [g |-> g3, sock |-> [n |-> add, s |-> 0]]

RECURSIVE ChannelStages(_, _, _, _, _)
ChannelStages(acc, used_ids, k, ranges, n_in) ==
    IF k > Len(used_ids) THEN acc
    ELSE Bind(ChannelStage(acc, used_ids[k], ranges, n_in),
              LAMBDA nxt : ChannelStages(nxt, used_ids, k + 1, ranges, n_in))

\* a variant: the default_value of the base Value node is left as the host sets it
build_channel_value_unset(g, id_indices, use, ranges, n_in) ==
    LET used_ids == UsedIds(id_indices, use)
    IN  Bind(NodesNew(g, GNode("VALUE", "", MathDefault)),
             LAMBDA g1 :
                ChannelStages([g |-> g1, sock |-> [n |-> Len(g1.nodes), s |-> 0]],
                              used_ids, 1, ranges, n_in))

\* returns [g: the group with the channel's nodes added, sock: the socket
\* that carries the channel value]
build_channel_value(g, id_indices, use, ranges, n_in) ==
    LET used_ids == UsedIds(id_indices, use)
    IN  Bind(NodesNew(g, GNode("VALUE", "", 0)),
             LAMBDA g1 :
                LET base_val_node == Len(g1.nodes)
                IN  ChannelStages([g |-> g1, sock |-> [n |-> base_val_node, s |-> 0]],
                                  used_ids, 1, ranges, n_in))

\* a variant: the R and G sockets enter the Combine RGB node the other way round
CombineLinks_swapped(g, r_sock, g_sock, b_sock, comb) ==
    GroupLink(GroupLink(GroupLink(g, g_sock.n, g_sock.s, comb, 0),
                        r_sock.n, r_sock.s, comb, 1),
              b_sock.n, b_sock.s, comb, 2)

\* the three links into the Combine RGB node
CombineLinks(g, r_sock, g_sock, b_sock, comb) ==
    GroupLink(GroupLink(GroupLink(g, r_sock.n, r_sock.s, comb, 0),
                        g_sock.n, g_sock.s, comb, 1),
              b_sock.n, b_sock.s, comb, 2)

\* a variant: the links are cleared, the nodes are not
ClearTree_linksOnly(group) == [group EXCEPT !.links = {}]

\* group.nodes.clear(); group.links.clear()
ClearTree(group) == [group EXCEPT !.nodes = <<>>, !.links = {}]

\* the body of build_id_core_group on the group itself: clear, declare the
\* interface of a new group, emit the nodes and links for the flags `use`
RebuildCoreTree(group, is_new, use) ==
    LET cleared == ClearTree(group)
        g0 == DeclareInterface(cleared, is_new)
        n_in == Len(g0.nodes) + 1
        n_out == n_in + 1
        g1 == NodesNew(NodesNew(g0, GNode("GROUP_INPUT", "", 0)), GNode("GROUP_OUTPUT", "", 0))
        ranges == compute_id_ranges(use)
        g2 == PassThrough(g1, n_in, n_out)
    IN  Bind(build_channel_value(g2, CoreChannelIds("R"), use, ranges, n_in), LAMBDA r :
        Bind(build_channel_value(r.g, CoreChannelIds("G"), use, ranges, n_in), LAMBDA gg :
        Bind(build_channel_value(gg.g, CoreChannelIds("B"), use, ranges, n_in), LAMBDA b :
        Bind(build_channel_value(b.g, CoreChannelIds("A"), use, ranges, n_in), LAMBDA a :
            LET comb == Len(a.g.nodes) + 1
                g3 == NodesNew(a.g, GNode("COMBRGB", "", 0))
                g4 == CombineLinks(g3, r.sock, gg.sock, b.sock, comb)
                g5 == GroupLink(g4, comb, 0, n_out, SocketIndex(g4.outputs, "RGB_ID"))
            IN  GroupLink(g5, a.sock.n, a.sock.s, n_out, SocketIndex(g5.outputs, "Alpha_ID"))))))

(***************************************************************************)
(* The material's node tree.  A node is known by its name (unique in the   *)
(* tree); tree is the node group a group node instances, parent its frame, *)
(* image its image datablock.  Locations and colours are left out.         *)
(***************************************************************************)

NtNode(name, kind, label, tree, parent, image) ==
    [name |-> name, kind |-> kind, label |-> label, tree |-> tree,
     parent |-> parent, image |-> image]

\* f"{k:03d}" for the suffix the host appends to a name already taken
Pad3(k) == IF k < 10 THEN "00" \o ToString(k) ELSE IF k < 100 THEN "0" \o ToString(k) ELSE ToString(k)

Names(seq) == {seq[k].name : k \in 1..Len(seq)}

\* the name the host gives a new datablock or node asked to be called base
UniqueName(taken, base) ==
    IF base \notin taken THEN base
    ELSE LET k == CHOOSE j \in 1..(Cardinality(taken) + 1) :
                    /\ (base \o "." \o Pad3(j)) \notin taken
                    /\ \A h \in 1..(j - 1) : (base \o "." \o Pad3(h)) \in taken
         IN  base \o "." \o Pad3(k)

\* nt.nodes.get(name): its position, 0 for None
NodesGet(nodes, name) ==
    IF \E k \in 1..Len(nodes) : nodes[k].name = name
    THEN CHOOSE k \in 1..Len(nodes) : nodes[k].name = name
    ELSE 0

\* the first position of a node satisfying the loop's test, 0 for none
FirstNode(nodes, Test(_)) ==
    IF \E k \in 1..Len(nodes) : Test(nodes[k])
    THEN CHOOSE k \in 1..Len(nodes) : Test(nodes[k]) /\ \A j \in 1..(k - 1) : ~Test(nodes[j])
    ELSE 0

\* material.use_nodes = True: the host creates the default tree the first time
EnableNodes(tree) ==
    IF tree.use_nodes THEN tree
    ELSE [tree EXCEPT
            !.use_nodes = TRUE,
            !.nodes = <<NtNode("Principled BSDF", "BSDF_PRINCIPLED", "", "", "", ""),
                        NtNode("Material Output", "OUTPUT_MATERIAL", "", "", "", "")>>,
            !.links = {Link("Principled BSDF", 0, "Material Output", 0)}]

\* returns [nt, frame: the frame's name]
ensure_id_system_frame(tree) ==
    LET IsFrame(n) == n.kind = "FRAME" /\ n.label = "ID System"
        found == FirstNode(tree.nodes, IsFrame)
        name == UniqueName(Names(tree.nodes), "ID_System_Frame")
    IN  IF found # 0 THEN [nt |-> tree, frame |-> tree.nodes[found].name]
        ELSE [nt |-> [tree EXCEPT !.nodes = Append(@, NtNode(name, "FRAME", "ID System", "", "", ""))],
              frame |-> name]

\* on w = [node_groups, nt, images]: for i in ids (ascending),
\* ensure_id_image_node(material, i) and then node.parent = frame.  The node
\* of id i is called id_image_name(i), as its image is; an existing node
\* keeps its place and gets the image (if it is an image node) and the
\* parent; the missing ones are appended in the order of the loop.
EnsureImageNodes(w, ids, frame) ==
  Bind(IF ids = {} THEN w.nt ELSE EnableNodes(w.nt), LAMBDA tree :
    LET IdOf(name) == CHOOSE i \in ids : id_image_name(i) = name
        IsMissing(i) == i \in ids /\ NodesGet(tree.nodes, id_image_name(i)) = 0
        missing == SelectSeq([i \in IDs |-> i], IsMissing)
        kept == [k \in 1..Len(tree.nodes) |->
                    LET n == tree.nodes[k]
                    IN  IF \E i \in ids : id_image_name(i) = n.name
                        THEN [n EXCEPT
                                !.image = IF n.kind = "TEX_IMAGE" THEN id_image_name(IdOf(n.name)) ELSE @,
                                !.parent = frame]
                        ELSE n]
        added == [j \in 1..Len(missing) |->
                    NtNode(id_image_name(missing[j]), "TEX_IMAGE", "ID " \o Pad2(missing[j]),
                           "", frame, id_image_name(missing[j]))]
    IN  [w EXCEPT !.images = @ \cup {id_image_name(i) : i \in ids},
                  !.nt = [tree EXCEPT !.nodes = kept \o added]])

\* the loop of ensure_id_core_node: for every i whose IDxx_Mask is an input
\* of the core node, the image node is ensured and parented, the links into
\* that input are removed and the image's Color output is linked to it
WireImages(w, core_node, group, frame) ==
    LET ids == {i \in IDs : SocketIndex(group.inputs, MaskName(i)) # 0}
        new == {Link(id_image_name(i), 0, core_node, SocketIndex(group.inputs, MaskName(i))) : i \in ids}
    IN  Bind(EnsureImageNodes(w, ids, frame), LAMBDA w1 :
            [w1 EXCEPT !.nt.links = {k \in @ : \A l \in new : ~(k.tn = l.tn /\ k.ts = l.ts)} \cup new])

\* a variant: the search for an existing ID Core node is left out
ensure_id_core_node_alwaysNew(w, group) ==
    Bind(ensure_id_system_frame(w.nt), LAMBDA f :
        LET name == UniqueName(Names(f.nt.nodes), "ID_Core")
            nodes1 == Append(f.nt.nodes, NtNode(name, "GROUP", "ID Core", group.name, f.frame, ""))
        IN  WireImages([w EXCEPT !.nt = [f.nt EXCEPT !.nodes = nodes1]], name, group, f.frame))

ensure_id_core_node(w, group) ==
    Bind(ensure_id_system_frame(w.nt), LAMBDA f :
        LET IsCore(n) == n.kind = "GROUP" /\ n.tree = group.name
            found == FirstNode(f.nt.nodes, IsCore)
            name == IF found # 0 THEN f.nt.nodes[found].name
                    ELSE UniqueName(Names(f.nt.nodes), "ID_Core")
            nodes1 == IF found # 0 THEN [f.nt.nodes EXCEPT ![found].parent = f.frame]
                      ELSE Append(f.nt.nodes, NtNode(name, "GROUP", "ID Core", group.name, f.frame, ""))
        IN  WireImages([w EXCEPT !.nt = [f.nt EXCEPT !.nodes = nodes1]], name, group, f.frame))

\* the name of the ID Core group node of the material, "" for None
get_id_core_node(w) ==
    LET IsCore(n) == n.kind = "GROUP" /\ n.tree # "" /\ n.tree = CoreGroupName
        found == FirstNode(w.nt.nodes, IsCore)
    IN  IF ~w.nt.use_nodes \/ found = 0 THEN "" ELSE w.nt.nodes[found].name

build_id_core_group(w, use) ==
    LET tree == EnableNodes(w.nt)
        at == GroupsGet(w.node_groups, CoreGroupName)
        is_new == at = 0
        groups1 == IF is_new THEN Append(w.node_groups, EmptyTree(CoreGroupName))
                   ELSE w.node_groups
        pos == IF is_new THEN Len(groups1) ELSE at
    IN  Bind(RebuildCoreTree(groups1[pos], is_new, use), LAMBDA group :
            ensure_id_core_node([w EXCEPT !.nt = tree, !.node_groups = [groups1 EXCEPT ![pos] = group]],
                                group))

\* the node kinds build_id_core_group creates whose creation is explored as
\* failing: group.nodes.new(kind) raises, and the exception leaves
\* build_id_core_group and the operator's execute
FailKinds == {"GROUP_INPUT", "VALUE", "COMBRGB"}

\* the group as build_id_core_group leaves it when the first
\* group.nodes.new of a node of this kind raises: cleared, the interface of
\* a new group declared, and the nodes and links emitted before that call
PartialCoreTree(group, is_new, use, kind) ==
    LET g0 == DeclareInterface(ClearTree(group), is_new)
        n_in == Len(g0.nodes) + 1
        n_out == n_in + 1
        g1 == NodesNew(NodesNew(g0, GNode("GROUP_INPUT", "", 0)), GNode("GROUP_OUTPUT", "", 0))
        ranges == compute_id_ranges(use)
        g2 == PassThrough(g1, n_in, n_out)
    IN  IF kind = "GROUP_INPUT" THEN g0
        ELSE IF kind = "VALUE" THEN g2
        ELSE Bind(build_channel_value(g2, CoreChannelIds("R"), use, ranges, n_in), LAMBDA r :
             Bind(build_channel_value(r.g, CoreChannelIds("G"), use, ranges, n_in), LAMBDA gg :
             Bind(build_channel_value(gg.g, CoreChannelIds("B"), use, ranges, n_in), LAMBDA b :
                build_channel_value(b.g, CoreChannelIds("A"), use, ranges, n_in).g)))

\* build_id_core_group left by the exception: ensure_id_core_node is not reached
build_id_core_group_raises(w, use, kind) ==
    LET tree == EnableNodes(w.nt)
        at == GroupsGet(w.node_groups, CoreGroupName)
        is_new == at = 0
        groups1 == IF is_new THEN Append(w.node_groups, EmptyTree(CoreGroupName))
                   ELSE w.node_groups
        pos == IF is_new THEN Len(groups1) ELSE at
    IN  Bind(PartialCoreTree(groups1[pos], is_new, use, kind), LAMBDA group :
            [w EXCEPT !.nt = tree, !.node_groups = [groups1 EXCEPT ![pos] = group]])

(***************************************************************************)
(* Mask painting: Set Active Paint ID.  The sockets used are input 0 of a  *)
(* Principled BSDF (Base Color), its output 0 (BSDF), input 0 of a         *)
(* Material Output (Surface), inputs 0, 1, 2 of a MixRGB (Fac, A, B) and   *)
(* output 0 of an image node (Color).  Default values of unlinked sockets  *)
(* are left out.                                                           *)
(***************************************************************************)

\* 'ID01' .. 'ID16', the items of active_paint_id besides 'NONE'
PaintEnum(i) == "ID" \o Pad2(i)

\* int(enum_val.replace("ID", ""))
PaintIndex(enum_val) == CHOOSE i \in IDs : PaintEnum(i) = enum_val

\* ensure_id_image_node(material, id_index) on w = [node_groups, nt, images]
ensure_id_image_node(w, i) ==
    LET tree == EnableNodes(w.nt)
        at == NodesGet(tree.nodes, id_image_name(i))
        nodes1 == IF at = 0
                  THEN Append(tree.nodes, NtNode(id_image_name(i), "TEX_IMAGE", "ID " \o Pad2(i),
                                                 "", "", id_image_name(i)))
                  ELSE IF tree.nodes[at].kind = "TEX_IMAGE"
                       THEN [tree.nodes EXCEPT ![at].image = id_image_name(i)]
                       ELSE tree.nodes
    IN  [w EXCEPT !.images = @ \cup {id_image_name(i)},
                  !.nt = [tree EXCEPT !.nodes = nodes1]]

\* nt.nodes.remove(node): the node goes, and with it its links; no node is
\* active if it was
NodesRemove(tree, name) ==
    LET Keep(n) == n.name # name
    IN  [tree EXCEPT !.nodes = SelectSeq(@, Keep),
                     !.links = {l \in @ : l.fn # name /\ l.tn # name},
                     !.active = IF @ = name THEN "" ELSE @]

\* the links of the tree without those into socket ts of node tn
WithoutLinksInto(links, tn, ts) == {l \in links : ~(l.tn = tn /\ l.ts = ts)}

\* a variant: a new preview BSDF and output every time
ensure_temp_preview_nodes_alwaysNew(tree, settings) ==
    LET bsdf == UniqueName(Names(tree.nodes), "IDTEMP_Principled")
        nodes1 == Append(tree.nodes, NtNode(bsdf, "BSDF_PRINCIPLED", "ID Paint Preview", "", "", ""))
        out == UniqueName(Names(nodes1), "IDTEMP_Output")
        nodes2 == Append(nodes1, NtNode(out, "OUTPUT_MATERIAL", "ID Paint Output", "", "", ""))
    IN  [nt |-> [tree EXCEPT !.nodes = nodes2,
                             !.links = WithoutLinksInto(@, out, 0) \cup {Link(bsdf, 0, out, 0)},
                             !.active = out],
         settings |-> [settings EXCEPT !.temp_bsdf_name = bsdf, !.temp_output_name = out]]

\* ensure_temp_preview_nodes(mat, settings): returns [nt, settings]
ensure_temp_preview_nodes(tree, settings) ==
    LET had_bsdf == IF settings.temp_bsdf_name # "" THEN NodesGet(tree.nodes, settings.temp_bsdf_name) ELSE 0
        had_out == IF settings.temp_output_name # "" THEN NodesGet(tree.nodes, settings.temp_output_name) ELSE 0
        bsdf == IF had_bsdf # 0 THEN settings.temp_bsdf_name
                ELSE UniqueName(Names(tree.nodes), "IDTEMP_Principled")
        nodes1 == IF had_bsdf # 0 THEN tree.nodes
                  ELSE Append(tree.nodes, NtNode(bsdf, "BSDF_PRINCIPLED", "ID Paint Preview", "", "", ""))
        out == IF had_out # 0 THEN settings.temp_output_name
               ELSE UniqueName(Names(nodes1), "IDTEMP_Output")
        nodes2 == IF had_out # 0 THEN nodes1
                  ELSE Append(nodes1, NtNode(out, "OUTPUT_MATERIAL", "ID Paint Output", "", "", ""))
        active == NodesGet(nodes2, tree.active)
        IsOther(n) == n.kind = "OUTPUT_MATERIAL" /\ n.name # out
        other == FirstNode(nodes2, IsOther)
        prev == IF tree.active # "" /\ active # 0 /\ nodes2[active].kind = "OUTPUT_MATERIAL"
                THEN tree.active
                ELSE IF other # 0 THEN nodes2[other].name ELSE ""
    IN  [nt |-> [tree EXCEPT !.nodes = nodes2,
                             !.links = WithoutLinksInto(@, out, 0) \cup {Link(bsdf, 0, out, 0)},
                             !.active = out],
         settings |-> [settings EXCEPT
                          !.temp_bsdf_name = bsdf,
                          !.temp_output_name = out,
                          !.prev_output_name = IF @ = "" THEN prev ELSE @]]

\* setup_paint_mix_chain(mat, settings, img_node): the tree after it
setup_paint_mix_chain(tree, settings, img_node) ==
    LET at == IF settings.temp_bsdf_name # "" THEN NodesGet(tree.nodes, settings.temp_bsdf_name) ELSE 0
        temp_bsdf == settings.temp_bsdf_name
        IsMain(n) == n.kind = "BSDF_PRINCIPLED" /\ n.name # temp_bsdf
        main == FirstNode(tree.nodes, IsMain)
        had == NodesGet(tree.nodes, "ID_Paint_Mix")
        reuse == had # 0 /\ tree.nodes[had].kind = "MIX_RGB"
        mix == IF reuse THEN "ID_Paint_Mix" ELSE UniqueName(Names(tree.nodes), "ID_Paint_Mix")
        nodes1 == IF reuse THEN tree.nodes
                  ELSE Append(tree.nodes, NtNode(mix, "MIX_RGB", "ID Paint Mix", "", "", ""))
        links1 == WithoutLinksInto(tree.links, mix, 0) \cup {Link(img_node, 0, mix, 0)}
        links2 == WithoutLinksInto(links1, mix, 1)
        base_in == IF main = 0 THEN {}
                   ELSE {l \in links2 : l.tn = tree.nodes[main].name /\ l.ts = 0}
        links3 == links2 \cup {Link(l.fn, l.fs, mix, 1) : l \in base_in}
        links4 == WithoutLinksInto(links3, temp_bsdf, 0) \cup {Link(mix, 0, temp_bsdf, 0)}
    IN  IF ~tree.use_nodes \/ at = 0 THEN tree
        ELSE IF tree.nodes[at].kind # "BSDF_PRINCIPLED" THEN tree
        ELSE [tree EXCEPT !.nodes = nodes1, !.links = links4]

\* clear_temp_preview_nodes(mat, settings): returns [nt, settings]
clear_temp_preview_nodes(tree, settings) ==
    LET t1 == IF settings.temp_output_name # "" THEN NodesRemove(tree, settings.temp_output_name) ELSE tree
        t2 == IF settings.temp_bsdf_name # "" THEN NodesRemove(t1, settings.temp_bsdf_name) ELSE t1
        prev == IF settings.prev_output_name # "" THEN NodesGet(t2.nodes, settings.prev_output_name) ELSE 0
        t3 == IF prev # 0 /\ t2.nodes[prev].kind = "OUTPUT_MATERIAL"
              THEN [t2 EXCEPT !.active = settings.prev_output_name] ELSE t2
    IN  IF ~tree.use_nodes THEN [nt |-> tree, settings |-> settings]
        ELSE [nt |-> t3,
              settings |-> [settings EXCEPT !.temp_output_name = "", !.temp_bsdf_name = "",
                                            !.prev_output_name = ""]]

(***************************************************************************)
(* Add ID Mix (Color)                                                      *)
(***************************************************************************)

\* a variant: the ids of the dialog in ascending order
MixUsedIds_sorted(props) ==
    LET ids == SubSeq(props.ids, 1, props.num_slots)
        Rank(k) == Cardinality({j \in 1..Len(ids) : ids[j] < ids[k] \/ (ids[j] = ids[k] /\ j < k)}) + 1
    IN  [r \in 1..Len(ids) |-> ids[CHOOSE k \in 1..Len(ids) : Rank(k) = r]]

\* used_ids: id1 .. id<num_slots> in the order of the dialog
MixUsedIds(props) == SubSeq(props.ids, 1, props.num_slots)

RECURSIVE JoinPad2(_)
JoinPad2(ids) ==
    IF Len(ids) = 0 THEN ""
    ELSE IF Len(ids) = 1 THEN Pad2(ids[1])
    ELSE Pad2(ids[1]) \o "_" \o JoinPad2(Tail(ids))

ColorName(i) == "Color_ID" \o Pad2(i)

MixMaskName(i) == "Mask_ID" \o Pad2(i)

\* Base, then Color/Mask for each used id in list order; Result
RECURSIVE ColorMixInputs(_)
ColorMixInputs(ids) ==
    IF Len(ids) = 0 THEN <<>>
    ELSE <<Sock(ColorName(ids[1]), "NodeSocketColor"), Sock(MixMaskName(ids[1]), "NodeSocketFloat")>>
         \o ColorMixInputs(Tail(ids))

ColorMixInterface(g, ids) ==
    [g EXCEPT !.inputs = <<Sock("Base", "NodeSocketColor")>> \o ColorMixInputs(ids),
              !.outputs = <<Sock("Result", "NodeSocketColor")>>]

\* one pass of the chain loop: a MixRGB node fed by current_socket, the
\* colour socket and the mask socket looked up by name
ColorMixStage(acc, id_val, n_in) ==
    LET g0 == acc.g
        prev == acc.sock
        mix == Len(g0.nodes) + 1
        g1 == NodesNew(g0, GNode("MIX_RGB", "MIX", 0))
        g2 == GroupLink(g1, prev.n, prev.s, mix, 1)
        g3 == GroupLink(g2, n_in, SocketIndex(g0.inputs, ColorName(id_val)), mix, 2)
        g4 == GroupLink(g3, n_in, SocketIndex(g0.inputs, MixMaskName(id_val)), mix, 0)
    IN  [g |-> g4, sock |-> [n |-> mix, s |-> 0]]

RECURSIVE ColorMixStages(_, _, _, _)
ColorMixStages(acc, ids, k, n_in) ==
    IF k > Len(ids) THEN acc
    ELSE Bind(ColorMixStage(acc, ids[k], n_in),
              LAMBDA nxt : ColorMixStages(nxt, ids, k + 1, n_in))

\* the per-instance node group of Add ID Mix (Color), called name
ColorMixGroup(name, used_ids) ==
    LET n_in == 1
        n_out == 2
        g0 == NodesNew(NodesNew(EmptyTree(name), GNode("GROUP_INPUT", "", 0)),
                       GNode("GROUP_OUTPUT", "", 0))
    IN  Bind(ColorMixInterface(g0, used_ids), LAMBDA g1 :
        Bind(ColorMixStages([g |-> g1, sock |-> [n |-> n_in, s |-> SocketIndex(g1.inputs, "Base")]],
                            used_ids, 1, n_in), LAMBDA c :
            GroupLink(c.g, c.sock.n, c.sock.s, n_out, SocketIndex(c.g.outputs, "Result"))))

\* for id_val in used_ids: link the core's IDxx_Mask output to Mask_IDxx
\* a variant: the core output is taken by the position in the list, not by
\* the id
RECURSIVE ConnectMasks_byPosition(_, _, _, _, _, _)
ConnectMasks_byPosition(tree, core_node, core_group, node, group, ids) ==
    IF Len(ids) = 0 THEN tree
    ELSE LET fs == SocketIndex(core_group.outputs, MaskName(Len(ids)))
             ts == SocketIndex(group.inputs, MixMaskName(ids[1]))
             t1 == IF fs # 0 /\ ts # 0
                   THEN [tree EXCEPT !.links = LinksNew(@, Link(core_node, fs, node, ts))]
                   ELSE tree
         IN  Bind(t1, LAMBDA t2 :
                ConnectMasks_byPosition(t2, core_node, core_group, node, group, Tail(ids)))

\* nt.links.new(core_node.outputs[out_name], node.inputs[mask_input_name])
\* for id_val in used_ids, where both sockets exist
RECURSIVE ConnectMasks(_, _, _, _, _, _)
ConnectMasks(tree, core_node, core_group, node, group, ids) ==
    IF Len(ids) = 0 THEN tree
    ELSE LET fs == SocketIndex(core_group.outputs, MaskName(ids[1]))
             ts == SocketIndex(group.inputs, MixMaskName(ids[1]))
             t1 == IF fs # 0 /\ ts # 0
                   THEN [tree EXCEPT !.links = LinksNew(@, Link(core_node, fs, node, ts))]
                   ELSE tree
         IN  Bind(t1, LAMBDA t2 : ConnectMasks(t2, core_node, core_group, node, group, Tail(ids)))

\* a variant: the core is taken as it is, build_id_core_group is not called
AddIDMixColorExecute_noRebuild(w, use, props) ==
    LET core_node == get_id_core_node(w)
        used_ids == MixUsedIds(props)
        group_name == UniqueName(Names(w.node_groups),
                                 "ID_Mix_Color_" \o MatName \o "_" \o JoinPad2(used_ids))
        node == UniqueName(Names(w.nt.nodes), "ID_Mix_Color_Instance")
        nodes1 == Append(w.nt.nodes, NtNode(node, "GROUP", "ID Mix Color", group_name, "", ""))
    IN  IF core_node = "" THEN w
        ELSE Bind(ColorMixGroup(group_name, used_ids), LAMBDA group :
                LET core_group == w.node_groups[GroupsGet(w.node_groups, CoreGroupName)]
                    tree1 == ConnectMasks([w.nt EXCEPT !.nodes = nodes1], core_node,
                                          core_group, node, group, used_ids)
                IN  [w EXCEPT !.node_groups = Append(@, group),
                              !.nt = [tree1 EXCEPT !.active = node]])

\* IDS_OT_AddIDMixColor.execute on w = [node_groups, nt, images]
AddIDMixColorExecute(w, use, props) ==
    Bind(build_id_core_group(w, use), LAMBDA w1 :
        LET core_node == get_id_core_node(w1)
            used_ids == MixUsedIds(props)
            group_name == UniqueName(Names(w1.node_groups),
                                     "ID_Mix_Color_" \o MatName \o "_" \o JoinPad2(used_ids))
            node == UniqueName(Names(w1.nt.nodes), "ID_Mix_Color_Instance")
            nodes1 == Append(w1.nt.nodes, NtNode(node, "GROUP", "ID Mix Color", group_name, "", ""))
            core_group == w1.node_groups[GroupsGet(w1.node_groups, CoreGroupName)]
        IN  IF core_node = "" THEN w1
            ELSE Bind(ColorMixGroup(group_name, used_ids), LAMBDA group :
                    LET tree1 == ConnectMasks([w1.nt EXCEPT !.nodes = nodes1], core_node,
                                              core_group, node, group, used_ids)
                    IN  [w1 EXCEPT !.node_groups = Append(@, group),
                                   !.nt = [tree1 EXCEPT !.active = node]]))

(***************************************************************************)
(* Add ID Mix (Normal)                                                     *)
(***************************************************************************)

SpaceName(i) == "Space_ID" \o Pad2(i)

\* BaseColor, BaseSpace, then Color/Space/Mask for each used id in list
\* order; Result
RECURSIVE NormalMixInputs(_)
NormalMixInputs(ids) ==
    IF Len(ids) = 0 THEN <<>>
    ELSE <<Sock(ColorName(ids[1]), "NodeSocketColor"), Sock(SpaceName(ids[1]), "NodeSocketFloat"),
           Sock(MixMaskName(ids[1]), "NodeSocketFloat")>>
         \o NormalMixInputs(Tail(ids))

NormalMixInterface(g, ids) ==
    [g EXCEPT !.inputs = <<Sock("BaseColor", "NodeSocketColor"), Sock("BaseSpace", "NodeSocketFloat")>>
                           \o NormalMixInputs(ids),
              !.outputs = <<Sock("Result", "NodeSocketVector")>>]

\* a variant: the DirectX normal enters input 1, the OpenGL normal input 2
SpaceMixLinks_swapped(g, space_socket, nmap_gl, nmap_dx, mix_vec) ==
    GroupLink(GroupLink(GroupLink(g, space_socket.n, space_socket.s, mix_vec, 0),
                        nmap_dx, 0, mix_vec, 1),
              nmap_gl, 0, mix_vec, 2)

\* the links into the node that mixes the two normals of one colour
SpaceMixLinks(g, space_socket, nmap_gl, nmap_dx, mix_vec) ==
    GroupLink(GroupLink(GroupLink(g, space_socket.n, space_socket.s, mix_vec, 0),
                        nmap_gl, 0, mix_vec, 1),
              nmap_dx, 0, mix_vec, 2)

\* the green channel inverted: a Math node SUBTRACT, inputs[0] = 1.0,
\* inputs[1] linked from the G output of sep
InvertGreen(g, sep, inv_g) ==
    GroupLink(NodesNew(g, GNode("MATH", "SUBTRACT", One)), sep, 1, inv_g, 1)

\* build_normal_from_color: the OpenGL normal of the colour, the DirectX
\* normal of the colour with its green flipped, and their mix by Space
\* (0 = GL, 1 = DX).  Returns [g, sock: the output of the mix]
build_normal_from_color(g, color_name, space_name, n_in) ==
    LET col_socket == [n |-> n_in, s |-> SocketIndex(g.inputs, color_name)]
        space_socket == [n |-> n_in, s |-> SocketIndex(g.inputs, space_name)]
        nmap_gl == Len(g.nodes) + 1
        sep == nmap_gl + 1
        inv_g == nmap_gl + 2
        comb == nmap_gl + 3
        nmap_dx == nmap_gl + 4
        mix_vec == nmap_gl + 5
        g1 == GroupLink(NodesNew(g, GNode("NORMAL_MAP", "", 0)), col_socket.n, col_socket.s, nmap_gl, 1)
        g2 == GroupLink(NodesNew(g1, GNode("SEPRGB", "", 0)), col_socket.n, col_socket.s, sep, 0)
        g3 == InvertGreen(g2, sep, inv_g)
        g4 == GroupLink(GroupLink(GroupLink(NodesNew(g3, GNode("COMBRGB", "", 0)),
                                            sep, 0, comb, 0),
                                  inv_g, 0, comb, 1),
                        sep, 2, comb, 2)
        g5 == GroupLink(NodesNew(g4, GNode("NORMAL_MAP", "", 0)), comb, 0, nmap_dx, 1)
        g6 == SpaceMixLinks(NodesNew(g5, GNode("MIX_RGB", "MIX", 0)), space_socket, nmap_gl, nmap_dx, mix_vec)
    IN  [g |-> g6, sock |-> [n |-> mix_vec, s |-> 0]]

\* the loop that fills id_normal_outputs, a dict keyed by id_val: from
\* acc = [g, outs], the k-th, (k+1)-th, ... id of ids
RECURSIVE PerIdNormals(_, _, _, _)
PerIdNormals(acc, ids, k, n_in) ==
    IF k > Len(ids) THEN acc
    ELSE Bind(build_normal_from_color(acc.g, ColorName(ids[k]), SpaceName(ids[k]), n_in),
              LAMBDA b : PerIdNormals([g |-> b.g, outs |-> (ids[k] :> b.sock) @@ acc.outs],
                                      ids, k + 1, n_in))

\* one pass of the chain loop: a MixRGB node fed by current_socket, the
\* normal of id_val and the mask socket looked up by name
NormalMixStage(acc, id_val, outs, n_in) ==
    LET g0 == acc.g
        prev == acc.sock
        mix == Len(g0.nodes) + 1
        g1 == NodesNew(g0, GNode("MIX_RGB", "MIX", 0))
        g2 == GroupLink(g1, prev.n, prev.s, mix, 1)
        g3 == GroupLink(g2, outs[id_val].n, outs[id_val].s, mix, 2)
        g4 == GroupLink(g3, n_in, SocketIndex(g0.inputs, MixMaskName(id_val)), mix, 0)
    IN  [g |-> g4, sock |-> [n |-> mix, s |-> 0]]

RECURSIVE NormalMixStages(_, _, _, _, _)
NormalMixStages(acc, ids, k, outs, n_in) ==
    IF k > Len(ids) THEN acc
    ELSE Bind(NormalMixStage(acc, ids[k], outs, n_in),
              LAMBDA nxt : NormalMixStages(nxt, ids, k + 1, outs, n_in))

\* the per-instance node group of Add ID Mix (Normal), called name
NormalMixGroup(name, used_ids) ==
    LET n_in == 1
        n_out == 2
        g0 == NodesNew(NodesNew(EmptyTree(name), GNode("GROUP_INPUT", "", 0)),
                       GNode("GROUP_OUTPUT", "", 0))
    IN  Bind(NormalMixInterface(g0, used_ids), LAMBDA g1 :
        Bind(build_normal_from_color(g1, "BaseColor", "BaseSpace", n_in), LAMBDA base_vec :
        Bind(PerIdNormals([g |-> base_vec.g, outs |-> <<>>], used_ids, 1, n_in), LAMBDA per :
        Bind(NormalMixStages([g |-> per.g, sock |-> base_vec.sock], used_ids, 1, per.outs, n_in),
             LAMBDA c :
                GroupLink(c.g, c.sock.n, c.sock.s, n_out, SocketIndex(c.g.outputs, "Result"))))))

\* a variant: a group that already has the name asked for is used again
AddIDMixNormalExecute_reuse(w, use, props) ==
    Bind(build_id_core_group(w, use), LAMBDA w1 :
        LET core_node == get_id_core_node(w1)
            used_ids == MixUsedIds(props)
            group_name == "ID_Mix_Normal_" \o MatName \o "_" \o JoinPad2(used_ids)
            at == GroupsGet(w1.node_groups, group_name)
            node == UniqueName(Names(w1.nt.nodes), "ID_Mix_Normal_Instance")
            nodes1 == Append(w1.nt.nodes, NtNode(node, "GROUP", "ID Mix Normal", group_name, "", ""))
            core_group == w1.node_groups[GroupsGet(w1.node_groups, CoreGroupName)]
        IN  IF core_node = "" THEN w1
            ELSE Bind(NormalMixGroup(group_name, used_ids), LAMBDA group :
                    LET tree1 == ConnectMasks([w1.nt EXCEPT !.nodes = nodes1], core_node,
                                              core_group, node, group, used_ids)
                    IN  [w1 EXCEPT !.node_groups = IF at # 0 THEN @ ELSE Append(@, group),
                                   !.nt = [tree1 EXCEPT !.active = node]]))

\* IDS_OT_AddIDMixNormal.execute on w = [node_groups, nt, images]
AddIDMixNormalExecute(w, use, props) ==
    Bind(build_id_core_group(w, use), LAMBDA w1 :
        LET core_node == get_id_core_node(w1)
            used_ids == MixUsedIds(props)
            group_name == UniqueName(Names(w1.node_groups),
                                     "ID_Mix_Normal_" \o MatName \o "_" \o JoinPad2(used_ids))
            node == UniqueName(Names(w1.nt.nodes), "ID_Mix_Normal_Instance")
            nodes1 == Append(w1.nt.nodes, NtNode(node, "GROUP", "ID Mix Normal", group_name, "", ""))
            core_group == w1.node_groups[GroupsGet(w1.node_groups, CoreGroupName)]
        IN  IF core_node = "" THEN w1
            ELSE Bind(NormalMixGroup(group_name, used_ids), LAMBDA group :
                    LET tree1 == ConnectMasks([w1.nt EXCEPT !.nodes = nodes1], core_node,
                                              core_group, node, group, used_ids)
                    IN  [w1 EXCEPT !.node_groups = Append(@, group),
                                   !.nt = [tree1 EXCEPT !.active = node]]))

(***************************************************************************)
(* State machine                                                           *)
(***************************************************************************)

World == [node_groups |-> node_groups, nt |-> nt, images |-> images]

\* the history variables across a step that runs build_id_core_group
NoteRebuild ==
    /\ rebuilds' = IF rebuilds < 2 THEN rebuilds + 1 ELSE 2
    /\ refreshed' = (GroupsGet(node_groups, CoreGroupName) # 0 /\ rebuilds = 0)

SetWorld(w) ==
    /\ node_groups' = w.node_groups
    /\ nt' = w.nt
    /\ images' = w.images

\* IDSystemMaterialSettings and the operator properties at their defaults
DefaultUse == [i \in IDs |-> FALSE]

DefaultMixProps == [num_slots |-> 2, ids |-> <<1, 2, 3, 4>>]

\* the paint settings at their defaults, no canvas set
DefaultPaint ==
    [active_paint_id |-> "NONE", temp_bsdf_name |-> "", temp_output_name |-> "",
     prev_output_name |-> "", canvas |-> ""]

\* T8TOOLS_ModifierPauseSettings at its defaults
DefaultPauseSettings ==
    [affect_viewport |-> TRUE, affect_render |-> TRUE, exclude_types |-> {}, snapshot_json |-> <<>>]

\* a scene without modifiers, and no Snapshot & Pause run yet
InitScene ==
    /\ mods = << >>
    /\ pause_settings = DefaultPauseSettings
    /\ pause_hist = [k |-> 0, first |-> <<>>, last |-> <<>>, restored |-> FALSE]

\* an operator that finds no active material: the error is reported and
\* execute returns CANCELLED
Cancelled ==
    /\ report' = "ERROR"
    /\ UNCHANGED id_vars

InitWorld ==
    /\ node_groups = <<>>
    /\ nt = [use_nodes |-> FALSE, nodes |-> <<>>, links |-> {}, active |-> ""]
    /\ images = {}
    /\ split_rgba = <<0, 0, 0, 0>>
    /\ report = ""
    /\ edits = 0
    /\ dialogs = 0
    /\ rebuilds = 0
    /\ refreshed = FALSE
    /\ mix_found = [stale |-> FALSE, chains |-> 0]
    /\ ctx_mat = TRUE
    /\ paint = DefaultPaint

Init ==
    /\ InitWorld
    /\ InitScene
    /\ id_use = DefaultUse
    /\ mix_props = DefaultMixProps

\* the user ticks or clears the id_use_<i> checkbox of the panel
SetFlag(i) ==
    /\ edits < MaxEdits
    /\ id_use' = [id_use EXCEPT ![i] = ~@]
    /\ edits' = edits + 1
    /\ rebuilds' = 0
    /\ UNCHANGED <<split_rgba, node_groups, nt, images, mix_props, report, dialogs, refreshed,
                   mix_found, ctx_mat, paint, pause_vars>>

\* IDS_OT_InitMasks.execute
InitMasks ==
    /\ IF ~ctx_mat THEN Cancelled
       ELSE /\ \E f \in {ensure_id_system_frame(EnableNodes(nt))} :
               \E w1 \in {EnsureImageNodes([World EXCEPT !.nt = f.nt], IDs, f.frame)} :
               \E w2 \in {build_id_core_group(w1, id_use)} : SetWorld(w2)
            /\ NoteRebuild
            /\ report' = "INFO"
            /\ UNCHANGED <<id_use, split_rgba, mix_props, edits, dialogs, mix_found>>
    /\ UNCHANGED <<ctx_mat, paint, pause_vars>>

\* a variant: the split is stored before the material is looked for
BuildSplit_storesFirst ==
    /\ split_rgba' = compute_split_from_flags(id_use)
    /\ IF ~ctx_mat
       THEN /\ report' = "ERROR"
            /\ UNCHANGED <<id_use, node_groups, nt, images, mix_props, edits, dialogs,
                           rebuilds, refreshed, mix_found>>
       ELSE /\ \E w1 \in {build_id_core_group(World, id_use)} : SetWorld(w1)
            /\ NoteRebuild
            /\ report' = "INFO"
            /\ UNCHANGED <<id_use, mix_props, edits, dialogs, mix_found>>
    /\ UNCHANGED <<ctx_mat, paint, pause_vars>>

\* IDS_OT_BuildSplit.execute
BuildSplit ==
    /\ IF ~ctx_mat THEN Cancelled
       ELSE /\ split_rgba' = compute_split_from_flags(id_use)
            /\ \E w1 \in {build_id_core_group(World, id_use)} : SetWorld(w1)
            /\ NoteRebuild
            /\ report' = "INFO"
            /\ UNCHANGED <<id_use, mix_props, edits, dialogs, mix_found>>
    /\ UNCHANGED <<ctx_mat, paint, pause_vars>>

\* IDS_OT_BuildSplit.execute when the host raises in build_id_core_group: the
\* split is stored already, the exception is reported as an error
BuildSplitRaises(kind) ==
    /\ ctx_mat
    /\ UNCHANGED <<ctx_mat, paint, pause_vars>>
    /\ split_rgba' = compute_split_from_flags(id_use)
    /\ \E w1 \in {build_id_core_group_raises(World, id_use, kind)} : SetWorld(w1)
    /\ report' = "ERROR"
    /\ rebuilds' = 0
    /\ UNCHANGED <<id_use, mix_props, edits, dialogs, refreshed, mix_found>>

Chains == {k \in 1..Len(node_groups) : node_groups[k].name # CoreGroupName}

\* the history variables across a step that runs an Add ID Mix operator
NoteMix ==
    /\ NoteRebuild
    /\ mix_found' = [stale |-> (GroupsGet(node_groups, CoreGroupName) # 0 /\ rebuilds = 0),
                     chains |-> Cardinality(Chains)]

\* IDS_OT_AddIDMixColor.execute
AddIDMixColor ==
    /\ Cardinality(Chains) < MaxChains
    /\ IF ~ctx_mat THEN Cancelled
       ELSE /\ \E w1 \in {AddIDMixColorExecute(World, id_use, mix_props)} :
                  /\ SetWorld(w1)
                  /\ report' = IF get_id_core_node(w1) = "" THEN "ERROR" ELSE "INFO"
            /\ NoteMix
            /\ UNCHANGED <<id_use, split_rgba, mix_props, edits, dialogs>>
    /\ UNCHANGED <<ctx_mat, paint, pause_vars>>

\* IDS_OT_AddIDMixNormal.execute
AddIDMixNormal ==
    /\ Cardinality(Chains) < MaxChains
    /\ IF ~ctx_mat THEN Cancelled
       ELSE /\ \E w1 \in {AddIDMixNormalExecute(World, id_use, mix_props)} :
                  /\ SetWorld(w1)
                  /\ report' = IF get_id_core_node(w1) = "" THEN "ERROR" ELSE "INFO"
            /\ NoteMix
            /\ UNCHANGED <<id_use, split_rgba, mix_props, edits, dialogs>>
    /\ UNCHANGED <<ctx_mat, paint, pause_vars>>

\* a variant: the upper limit of the property is not applied
IntProperty_noMax(v, min, max) == IF v < min THEN min ELSE v

\* a value given to an IntProperty(min=..., max=...): the host keeps it
\* within the limits
IntProperty(v, min, max) == IF v < min THEN min ELSE IF v > max THEN max ELSE v

\* num_slots (min=1, max=4) and id1..id4 (min=1, max=16) given the values of p
MixProps(p) ==
    [num_slots |-> IntProperty(p.num_slots, 1, MaxSlots),
     ids |-> [k \in 1..MaxSlots |-> IntProperty(p.ids[k], 1, NumIDs)]]

\* the user fills in the dialog of an Add ID Mix operator (num_slots, id1..id4)
SetMixProps(p) ==
    /\ dialogs < MaxDialogs
    /\ mix_props' = MixProps(p)
    /\ dialogs' = dialogs + 1
    /\ UNCHANGED <<id_use, split_rgba, node_groups, nt, images, report, edits, rebuilds,
                   refreshed, mix_found, ctx_mat, paint, pause_vars>>

\* the user picks an item of the Paint ID enum in the panel
SetActivePaintId(v) ==
    /\ paint.active_paint_id # v
    /\ paint' = [paint EXCEPT !.active_paint_id = v]
    /\ UNCHANGED <<id_vars, report, ctx_mat, pause_vars>>

\* IDS_OT_SetPaintID.execute.  nt is read from the material before
\* ensure_id_image_node enables its nodes: on a material that had no node
\* tree the last loop (for n in nt.nodes) has None for nt on a host that
\* creates the tree with use_nodes, and raises after everything else is
\* done; both outcomes are explored.
SetPaintID ==
    /\ IF ~ctx_mat THEN Cancelled /\ UNCHANGED paint
       ELSE IF paint.active_paint_id = "NONE"
       THEN /\ \E c \in {clear_temp_preview_nodes(nt, paint)} :
                  /\ nt' = c.nt
                  /\ paint' = [c.settings EXCEPT !.canvas = ""]
            /\ report' = "INFO"
            /\ UNCHANGED <<id_use, split_rgba, node_groups, images, mix_props, edits, dialogs,
                           rebuilds, refreshed, mix_found>>
       ELSE /\ \E raises \in (IF nt.use_nodes THEN {FALSE} ELSE {FALSE, TRUE}) :
               \E i \in {PaintIndex(paint.active_paint_id)} :
               \E w1 \in {ensure_id_image_node(World, i)} :
               \E e \in {ensure_temp_preview_nodes(w1.nt, paint)} :
               \E t \in {setup_paint_mix_chain(e.nt, e.settings, id_image_name(i))} :
                  /\ nt' = IF raises THEN t ELSE [t EXCEPT !.active = id_image_name(i)]
                  /\ images' = w1.images
                  /\ paint' = [e.settings EXCEPT !.canvas = id_image_name(i)]
                  /\ report' = IF raises THEN "ERROR" ELSE "INFO"
            /\ UNCHANGED <<id_use, split_rgba, node_groups, mix_props, edits, dialogs,
                           rebuilds, refreshed, mix_found>>
    /\ UNCHANGED <<ctx_mat, pause_vars>>

\* the user changes what the context holds: the object with the material is
\* deselected or removed from the editor, or selected again
SetContext ==
    /\ ctx_mat' = ~ctx_mat
    /\ UNCHANGED <<id_vars, report, paint, pause_vars>>

(***************************************************************************)
(* Modifier pause (src/quick_tools/modifier_pause.py)                      *)
(*                                                                         *)
(* The modifiers of the scene are kept by object name and modifier name.   *)
(* A snapshot is a Python dict, kept as a function from the same keys; its *)
(* JSON text is kept as the sequence of the values it holds: the empty     *)
(* string holds none, and the text of a snapshot holds one object, whose   *)
(* members carry the booleans as the words true and false.                 *)
(***************************************************************************)

JsonBool(b) == IF b THEN "true" ELSE "false"

PyBool(word) == word = "true"

\* json.dumps(snapshot)
json_dumps(data) ==
    << {[obj |-> key[1], mod |-> key[2], type |-> data[key].type,
         sv |-> JsonBool(data[key].sv), sr |-> JsonBool(data[key].sr)] : key \in DOMAIN data} >>

\* json.loads(settings.snapshot_json), for a text that holds an object
json_loads(text) ==
    [key \in {<<e.obj, e.mod>> : e \in text[1]} |->
        LET e == CHOOSE x \in text[1] : x.obj = key[1] /\ x.mod = key[2]
        IN  [type |-> e.type, sv |-> PyBool(e.sv), sr |-> PyBool(e.sr)]]

_build_snapshot_viewportOnly(m) ==
    [key \in DOMAIN m |->
        [type |-> m[key].type, sv |-> m[key].show_viewport, sr |-> m[key].show_viewport]]

\* the state of every modifier of every object of the scene
_build_snapshot(m) ==
    [key \in DOMAIN m |->
        [type |-> m[key].type, sv |-> m[key].show_viewport, sr |-> m[key].show_render]]

\* every modifier whose type is not excluded is hidden in the viewport and
\* in renders, as far as the settings say
_apply_pause(m, settings) ==
    [key \in DOMAIN m |->
        IF m[key].type \in settings.exclude_types
        THEN m[key]
        ELSE [m[key] EXCEPT
                !.show_viewport = IF settings.affect_viewport THEN FALSE ELSE @,
                !.show_render = IF settings.affect_render THEN FALSE ELSE @]]

\* the modifiers the stored snapshot names get its values back, as far as
\* the settings say; ok is FALSE when no snapshot is stored
_apply_restore(m, settings) ==
    IF settings.snapshot_json = <<>>
    THEN [ok |-> FALSE, mods |-> m]
    ELSE LET data == json_loads(settings.snapshot_json)
         IN  [ok |-> TRUE,
              mods |-> [key \in DOMAIN m |->
                          IF key \notin DOMAIN data
                          THEN m[key]
                          ELSE [m[key] EXCEPT
                                  !.show_viewport =
                                      IF settings.affect_viewport THEN data[key].sv ELSE @,
                                  !.show_render =
                                      IF settings.affect_render THEN data[key].sr ELSE @]]]

\* T8TOOLS_OT_modifier_pause_snapshot_and_disable.execute
SnapshotAndPause ==
    /\ pause_hist.k < MaxPauses \/ pause_hist.restored
    /\ pause_settings' = [pause_settings EXCEPT !.snapshot_json = json_dumps(_build_snapshot(mods))]
    /\ mods' = _apply_pause(mods, pause_settings')
    /\ pause_hist' = IF pause_hist.k = 0 \/ pause_hist.restored
                     THEN [k |-> 1, first |-> mods, last |-> mods, restored |-> FALSE]
                     ELSE [pause_hist EXCEPT !.k = @ + 1, !.last = mods]
    /\ report' = "INFO"
    /\ UNCHANGED <<id_vars, ctx_mat, paint>>

\* T8TOOLS_OT_modifier_pause_restore.execute
Restore ==
    /\ \E r \in {_apply_restore(mods, pause_settings)} :
          /\ mods' = r.mods
          /\ report' = IF r.ok THEN "INFO" ELSE "WARNING"
          /\ pause_hist' = IF pause_hist.k >= 1 /\ ~pause_hist.restored
                           THEN [pause_hist EXCEPT !.restored = TRUE]
                           ELSE [k |-> 0, first |-> <<>>, last |-> <<>>, restored |-> FALSE]
    /\ UNCHANGED <<id_vars, ctx_mat, paint, pause_settings>>

\* the user shows or hides a modifier in the viewport or in renders
ToggleModifier(key, field) ==
    /\ mods' = [mods EXCEPT ![key] =
                  IF field = "show_viewport"
                  THEN [@ EXCEPT !.show_viewport = ~@]
                  ELSE [@ EXCEPT !.show_render = ~@]]
    /\ pause_hist' = [k |-> 0, first |-> <<>>, last |-> <<>>, restored |-> FALSE]
    /\ UNCHANGED <<id_vars, report, ctx_mat, paint, pause_settings>>

\* the user edits Affect Viewport, Affect Render or the excluded types
SetPauseSettings(viewport, render, types) ==
    /\ pause_settings' = [pause_settings EXCEPT !.affect_viewport = viewport,
                                                !.affect_render = render,
                                                !.exclude_types = types]
    /\ pause_settings' # pause_settings
    /\ pause_hist' = [k |-> 0, first |-> <<>>, last |-> <<>>, restored |-> FALSE]
    /\ UNCHANGED <<id_vars, report, ctx_mat, paint, mods>>

FlagChoices == (1..FlagIdLow) \cup {NumIDs}

Next ==
    \/ \E i \in FlagChoices : SetFlag(i)
    \/ InitMasks
    \/ BuildSplit
    \/ AddIDMixColor
    \/ AddIDMixNormal

Spec == Init /\ [][Next]_vars

(***************************************************************************)
(* SpecCompose: the core build as a function of the configuration.  The    *)
(* material starts with any configuration that has at most MaxActive set   *)
(* flags, or set flags in one channel only (the checkboxes are free to     *)
(* edit before the first operator runs), and Build Split is applied to it. *)
(***************************************************************************)

InitConfigs ==
    {[i \in IDs |-> i \in S] :
        S \in {T \in SUBSET IDs :
                \/ Cardinality(T) <= MaxActive
                \/ \E ch \in Range(ChannelNames) : T \subseteq Range(ChannelIdList(ch))}}

ComposeInit ==
    /\ InitWorld
    /\ InitScene
    /\ id_use \in InitConfigs
    /\ mix_props = DefaultMixProps

ComposeNext == BuildSplit

SpecCompose == ComposeInit /\ [][ComposeNext]_vars

(***************************************************************************)
(* SpecBuildOnce: as SpecCompose, the core built once from the             *)
(* configuration.                                                          *)
(***************************************************************************)

BuildOnce == rebuilds = 0 /\ BuildSplit

SpecBuildOnce == ComposeInit /\ [][BuildOnce]_vars

(***************************************************************************)
(* SpecPaint: Set Active Paint ID on a material, for the items NONE and    *)
(* the first PaintIdLow ids, with Init Masks before, between or after.     *)
(***************************************************************************)

PaintChoices == {"NONE"} \cup {PaintEnum(i) : i \in 1..PaintIdLow}

PaintNext ==
    \/ \E v \in PaintChoices : SetActivePaintId(v)
    \/ SetPaintID
    \/ InitMasks

SpecPaint == Init /\ [][PaintNext]_vars

(***************************************************************************)
(* SpecContext: the five operators of the ID system, run with and without  *)
(* an active material in the context; the checkbox edited is that of id 1, *)
(* the paint id is NONE or 1, and one mix chain is added at most.          *)
(***************************************************************************)

ContextNext ==
    \/ SetContext
    \/ SetFlag(1)
    \/ \E v \in {"NONE", PaintEnum(1)} : SetActivePaintId(v)
    \/ InitMasks
    \/ BuildSplit
    \/ SetPaintID
    \/ Chains = {} /\ AddIDMixColor
    \/ Chains = {} /\ AddIDMixNormal

SpecContext == Init /\ [][ContextNext]_vars

(***************************************************************************)
(* SpecPause: Snapshot & Pause and Restore on a scene with one object that *)
(* carries two modifiers, both visible when added; the user shows and      *)
(* hides them and edits the pause settings in between.                     *)
(***************************************************************************)

SceneModifiers ==
    [key \in {<<"Cube", "Subdivision">>, <<"Cube", "Mirror">>} |->
        [type |-> IF key[2] = "Subdivision" THEN "SUBSURF" ELSE "MIRROR",
         show_viewport |-> TRUE, show_render |-> TRUE]]

ExcludeChoices == {{}, {"SUBSURF"}}

PauseInit ==
    /\ InitWorld
    /\ id_use = DefaultUse
    /\ mix_props = DefaultMixProps
    /\ mods = SceneModifiers
    /\ pause_settings = DefaultPauseSettings
    /\ pause_hist = [k |-> 0, first |-> <<>>, last |-> <<>>, restored |-> FALSE]

PauseNext ==
    \/ SnapshotAndPause
    \/ Restore
    \/ \E key \in DOMAIN SceneModifiers, field \in {"show_viewport", "show_render"} :
          ToggleModifier(key, field)
    \/ \E viewport, render \in BOOLEAN, types \in ExcludeChoices :
          SetPauseSettings(viewport, render, types)

SpecPause == PauseInit /\ [][PauseNext]_vars

(***************************************************************************)
(* SpecMix: the chain builders as functions of the request.  The dialog    *)
(* of Add ID Mix holds any num_slots in 1..4 and ids drawn from            *)
(* MixIdChoices (repetitions and any order included); one of the two       *)
(* operators is applied to it, once.                                       *)
(***************************************************************************)

MixIdChoices == (1..MixIdLow) \cup {NumIDs}

MixRequests == {[num_slots |-> n, ids |-> q] : n \in 1..MaxSlots, q \in [1..MaxSlots -> MixIdChoices]}

MixInit ==
    /\ InitWorld
    /\ InitScene
    /\ id_use = DefaultUse
    /\ mix_props \in MixRequests

MixNext ==
    \/ Chains = {} /\ AddIDMixColor
    \/ Chains = {} /\ AddIDMixNormal

SpecMix == MixInit /\ [][MixNext]_vars

(***************************************************************************)
(* SpecKeys: chains requested one after the other, with the other          *)
(* operators in between.  The dialog starts at its defaults and is edited  *)
(* between requests to one of KeyRequests (one or two slots, the ids 1 and *)
(* 2 in either order) or given the values of one of RawRequests.  No       *)
(* checkbox is edited.                                                     *)
(***************************************************************************)

KeyRequests ==
    {[num_slots |-> n, ids |-> q] : n \in 1..2, q \in {<<1, 2, 3, 4>>, <<2, 1, 3, 4>>}}

\* values outside the limits of the properties: 0 and 17 for an id, 0 for
\* num_slots
RawRequests ==
    {[num_slots |-> 0, ids |-> <<0, NumIDs + 1, 3, 4>>],
     [num_slots |-> 2, ids |-> <<NumIDs + 1, 0, 3, 4>>]}

KeysNext ==
    \/ \E p \in KeyRequests \cup RawRequests : SetMixProps(p)
    \/ AddIDMixColor
    \/ AddIDMixNormal
    \/ InitMasks
    \/ BuildSplit

SpecKeys == Init /\ [][KeysNext]_vars

(***************************************************************************)
(* SpecFail: Build Split with a host that may refuse to create a node.     *)
(***************************************************************************)

FailNext ==
    \/ \E i \in FlagChoices : SetFlag(i)
    \/ InitMasks
    \/ BuildSplit
    \/ \E kind \in FailKinds : BuildSplitRaises(kind)

SpecFail == Init /\ [][FailNext]_vars

(***************************************************************************)
(* Reference definitions the claims are stated with                        *)
(***************************************************************************)

\* the ID Core group, once built
CoreExists == GroupsGet(node_groups, CoreGroupName) # 0

Core == node_groups[GroupsGet(node_groups, CoreGroupName)]

\* the mask values explored: 0, 1/2, 1
MaskVals == {0, One \div 2, One}

\* channels 1..4 are R, G, B, A; channel c owns the ids 4(c-1)+1 .. 4c
ChannelOf(i) == ((i - 1) \div 4) + 1

ActiveIn(c, use) == {i \in IDs : ChannelOf(i) = c /\ use[i]}

\* a finite set of integers in ascending order
Ascending(S) == [k \in 1..Cardinality(S) |-> CHOOSE x \in S : Cardinality({y \in S : y < x}) = k - 1]

\* the gray levels the claims list, in thousandths, by number of active ids
ListedGrays ==
    <<<<1000>>, <<50, 1000>>, <<80, 397, 1000>>, <<50, 212, 521, 1000>>>>

\* the active ids of channel c in ascending order, and their gray levels:
\* the listed level at each one's rank
ActiveSeq(c, use) == Ascending(ActiveIn(c, use))

Levels(c, use) ==
    LET n == Cardinality(ActiveIn(c, use))
    IN  [k \in 1..n |-> Milli(ListedGrays[n][k])]

\* from v, for k-th, (k+1)-th, ... id of ids: v = v + mask(id) * (gray - v)
RECURSIVE OverrideFold(_, _, _, _, _)
OverrideFold(v, ids, grays, m, k) ==
    IF k > Len(ids) THEN v
    ELSE OverrideFold(v + Times(m[ids[k]], grays[k] - v), ids, grays, m, k + 1)

\* seq without its k-th element
Without(seq, k) == [j \in 1..(Len(seq) - 1) |-> IF j < k THEN seq[j] ELSE seq[j + 1]]

\* the value the core delivers for channel c when the masks are m
ChannelValue(wg, c, m) ==
    IF c = 4 THEN GroupOut(wg, "Alpha_ID", m) ELSE GroupOut(wg, "RGB_ID", m)[c]

\* the mask assignment that gives the ids in DOMAIN a the values a holds
\* for them and every other id the value f
Masks(a, f) == [i \in IDs |-> IF i \in DOMAIN a THEN a[i] ELSE f]

\* the mask assignment that gives every id of channel c the value f[c]
ChannelMasks(f) == [i \in IDs |-> f[ChannelOf(i)]]

\* the masks of the ids in S at 1, all others at 0
MasksOf(S) == [i \in IDs |-> IF i \in S THEN One ELSE 0]

\* the link that delivers the value of channel c: into Alpha_ID for A, into
\* the c-th input of the node that feeds RGB_ID for R, G, B
ChannelSource(wg, c) ==
    IF c = 4 THEN wg.src[wg.out][SocketIndex(wg.outputs, "Alpha_ID")]
    ELSE wg.src[wg.src[wg.out][SocketIndex(wg.outputs, "RGB_ID")].fn][c - 1]

\* the blend stages that end at node n, first stage first: for each, the
\* group input its mask comes from and the gray constant of its difference
RECURSIVE StagesBack(_, _)
StagesBack(wg, n) ==
    IF wg.nodes[n].kind = "MATH" /\ wg.nodes[n].op = "ADD"
    THEN LET mul == wg.src[n][1].fn
             diff == wg.src[mul][1].fn
         IN  Append(StagesBack(wg, wg.src[n][0].fn),
                    [mask |-> wg.src[mul][0].fs, gray |-> wg.nodes[diff].val])
    ELSE <<>>

CoreStages(wg, c) == StagesBack(wg, ChannelSource(wg, c).fn)

\* the active ids and the gray levels of the four channels
ActiveTable(use) == [c \in 1..4 |-> [ids |-> ActiveSeq(c, use), grays |-> Levels(c, use)]]

\* C1: for every configuration and every mask assignment, the value the
\* rebuilt core computes for each channel is the override fold over the
\* channel's active ids in ascending order, with the gray level of an id
\* the preset entry at its rank among them.
C1_ChannelValueIsOverrideFold ==
    CoreExists =>
        \A wg \in {Wired(Core)}, t \in {ActiveTable(id_use)} :
            \A c \in 1..4 :
                \A a \in [Range(t[c].ids) -> MaskVals], f \in MaskVals :
                    \A m \in {Masks(a, f)} :
                        ChannelValue(wg, c, m) = OverrideFold(0, t[c].ids, t[c].grays, m, 1)

\* a core built for a channel of three or more active ids, blending to a
\* value strictly between 0 and 1
C1_Witness ==
    /\ CoreExists
    /\ rebuilds >= 1
    /\ \E wg \in {Wired(Core)}, c \in 1..4 :
          /\ Cardinality(ActiveIn(c, id_use)) >= 3
          /\ \E a \in [ActiveIn(c, id_use) -> MaskVals] :
                ChannelValue(wg, c, Masks(a, 0)) \notin {0, One}

\* C2: after a build, RGB_ID (a colour socket) carries the triple of the
\* composed values of the channels R, G, B in that order and Alpha_ID (a
\* scalar socket) the composed value of channel A (the masks of each
\* channel at 1/2 or 1, so that the four values can differ).
C2_OutputsCarryChannels ==
    CoreExists =>
        \A wg \in {Wired(Core)}, t \in {ActiveTable(id_use)} :
            LET TypeOf(name) == wg.outputs[SocketIndex(wg.outputs, name)].type
                Value(c, m) == OverrideFold(0, t[c].ids, t[c].grays, m, 1)
            IN  /\ TypeOf("RGB_ID") = "NodeSocketColor"
                /\ TypeOf("Alpha_ID") = "NodeSocketFloat"
                /\ \A f \in [1..4 -> MaskVals \ {0}] :
                        \A m \in {ChannelMasks(f)} :
                            /\ GroupOut(wg, "RGB_ID", m) = <<Value(1, m), Value(2, m), Value(3, m)>>
                            /\ GroupOut(wg, "Alpha_ID", m) = Value(4, m)

\* a core whose channels R, G and B all have an active id, fed masks under
\* which R differs from G and G from B
C2_Witness ==
    /\ CoreExists
    /\ rebuilds >= 1
    /\ \A c \in 1..3 : ActiveIn(c, id_use) # {}
    /\ \E wg \in {Wired(Core)}, f \in [1..4 -> MaskVals \ {0}] :
          \E rgb \in {GroupOut(wg, "RGB_ID", ChannelMasks(f))} :
              rgb[1] # rgb[2] /\ rgb[2] # rgb[3] /\ rgb[1] # 0 /\ rgb[2] # 0 /\ rgb[3] # 0

\* C3: override semantics.  If active id k has mask 1 and the higher active
\* ids of its channel have mask 0, the channel value is the gray level of
\* k whatever the lower masks are; a stage of mask 0 leaves the value as
\* the other stages make it without that stage; and the three listed
\* examples give 0.397, 0.05 and 1.0.
C3_OverrideSemantics ==
    CoreExists =>
        \A wg \in {Wired(Core)}, t \in {ActiveTable(id_use)} :
            /\ \A c \in 1..4 :
                  \A a \in [Range(t[c].ids) -> MaskVals], f \in MaskVals :
                    \A m \in {Masks(a, f)} :
                      \A v \in {ChannelValue(wg, c, m)} :
                        \A k \in 1..Len(t[c].ids) :
                            /\ (/\ m[t[c].ids[k]] = One
                                /\ \A j \in (k + 1)..Len(t[c].ids) : m[t[c].ids[j]] = 0)
                                    => v = t[c].grays[k]
                            /\ (m[t[c].ids[k]] = 0)
                                    => v = OverrideFold(0, Without(t[c].ids, k), Without(t[c].grays, k), m, 1)
            /\ (ActiveIn(1, id_use) = {1, 3, 4}) => ChannelValue(wg, 1, MasksOf({3})) = Milli(397)
            /\ (ActiveIn(1, id_use) = {1, 2}) => ChannelValue(wg, 1, MasksOf({1})) = Milli(50)
            /\ (ActiveIn(2, id_use) = {5, 6}) => ChannelValue(wg, 2, MasksOf({5, 6})) = Milli(1000)

\* the core built for the first example (ids 1, 3, 4 active in channel R),
\* fed a lower mask that is not 0
C3_Witness ==
    /\ CoreExists
    /\ rebuilds >= 1
    /\ ActiveIn(1, id_use) = {1, 3, 4}
    /\ ChannelValue(Wired(Core), 1, [i \in IDs |-> IF i = 3 THEN One ELSE IF i = 1 THEN One \div 2 ELSE 0])
            = Milli(397)

\* C4: a channel none of whose four flags is set composes to 0.0, whatever
\* the masks are (those of its own four ids included).
C4_EmptyChannelIsZero ==
    CoreExists =>
        \A wg \in {Wired(Core)} :
            \A c \in 1..4 :
                ActiveIn(c, id_use) = {} =>
                    \A f \in [1..4 -> MaskVals] : ChannelValue(wg, c, ChannelMasks(f)) = 0

\* a core with an empty channel next to a channel that is not empty
C4_Witness ==
    /\ CoreExists
    /\ rebuilds >= 1
    /\ \E wg \in {Wired(Core)}, c, d \in 1..4 :
          /\ ActiveIn(c, id_use) = {}
          /\ ActiveIn(d, id_use) # {}
          /\ ChannelValue(wg, d, MasksOf(IDs)) = One
          /\ ChannelValue(wg, c, MasksOf(IDs)) = 0

\* C5: the preset table holds, for n in 1..4, n strictly ascending levels
\* ending in 1.0 (the listed ones) and nothing for n = 0; and the gray
\* constants a built core uses, stage by stage, are these levels (the first
\* component of the pairs).
C5_PresetTable ==
    /\ ID_RANGE_PRESETS[0] = <<>>
    /\ \A n \in 1..4 :
          \A p \in {ID_RANGE_PRESETS[n]} :
              /\ Len(p) = n
              /\ \A k \in 1..(n - 1) : p[k][1] < p[k + 1][1]
              /\ p[n][1] = One
              /\ \A k \in 1..n : p[k][1] = Milli(ListedGrays[n][k])
    /\ CoreExists =>
          \A wg \in {Wired(Core)} :
              \A c \in 1..4 :
                  \A st \in {CoreStages(wg, c)} :
                      [k \in 1..Len(st) |-> st[k].gray] = Levels(c, id_use)

\* a core one of whose channels uses the four-level list
C5_Witness ==
    /\ CoreExists
    /\ rebuilds >= 1
    /\ \E c \in 1..4 :
          /\ Cardinality(ActiveIn(c, id_use)) = 4
          /\ Len(CoreStages(Wired(Core), c)) = 4

\* C6: after a build, for every id (active or not) exactly one link enters
\* the group output IDii_Mask, it comes straight from the group input
\* IDii_Mask, and the output's value is that input's mask.
C6_MaskOutputsEchoInputs ==
    CoreExists =>
        \A g \in {Core} : \A wg \in {Wired(g)} :
            \A i \in IDs :
                \A o \in {SocketIndex(g.outputs, MaskName(i))} :
                    /\ o # 0
                    /\ \A k \in g.links :
                          (k.tn = wg.out /\ k.ts = o) =>
                              /\ g.nodes[k.fn].kind = "GROUP_INPUT"
                              /\ k.fs = SocketIndex(g.inputs, MaskName(i))
                    /\ Cardinality({k \in g.links : k.tn = wg.out /\ k.ts = o}) = 1
                    /\ \A a \in MaskVals, f \in MaskVals :
                          GroupOut(wg, MaskName(i), Masks(i :> a, f)) = a

\* a core built with some ids active and some not, echoing the mask of one
\* of each kind
C6_Witness ==
    /\ CoreExists
    /\ rebuilds >= 1
    /\ \E wg \in {Wired(Core)}, i, j \in IDs :
          /\ id_use[i] /\ ~id_use[j]
          /\ GroupOut(wg, MaskName(i), Masks(i :> One, 0)) = One
          /\ GroupOut(wg, MaskName(j), Masks(j :> One, 0)) = One

\* how many sockets of decls have this name and type
CountSockets(decls, name, type) ==
    Cardinality({k \in 1..Len(decls) : decls[k] = Sock(name, type)})

\* exactly the 16 mask inputs, the 16 mask outputs, RGB_ID and Alpha_ID
SocketSetOK(g) ==
    /\ Len(g.inputs) = NumIDs
    /\ Len(g.outputs) = NumIDs + 2
    /\ \A i \in IDs :
          /\ CountSockets(g.inputs, MaskName(i), "NodeSocketFloat") = 1
          /\ CountSockets(g.outputs, MaskName(i), "NodeSocketFloat") = 1
    /\ CountSockets(g.outputs, "RGB_ID", "NodeSocketColor") = 1
    /\ CountSockets(g.outputs, "Alpha_ID", "NodeSocketFloat") = 1

\* C7: a build that follows a build of the same configuration leaves the
\* interface of the ID Core group as it was, exactly 16 mask inputs, 16
\* mask outputs, RGB_ID and Alpha_ID, and leaves every channel value as it
\* was after the build before.
C7_RebuildIdempotent ==
    [][ /\ CoreExists' => SocketSetOK(Core')
        /\ (rebuilds >= 1 /\ rebuilds' >= 1 /\ id_use' = id_use) =>
              /\ Core'.inputs = Core.inputs
              /\ Core'.outputs = Core.outputs
              /\ \A wg1 \in {Wired(Core)}, wg2 \in {Wired(Core')}, t \in {ActiveTable(id_use)} :
                    \A c \in 1..4 :
                        \A a \in [Range(t[c].ids) -> MaskVals], f \in MaskVals :
                            \A m \in {Masks(a, f)} :
                                ChannelValue(wg2, c, m) = ChannelValue(wg1, c, m)
      ]_vars

\* the core after two or more builds in a row of one configuration that
\* has three or more active ids in a channel
C7_Witness ==
    /\ CoreExists
    /\ rebuilds = 2
    /\ SocketSetOK(Core)
    /\ \E c \in 1..4 : Cardinality(ActiveIn(c, id_use)) >= 3

\* C8: whenever a build has run since the last flag edit, the nodes and the
\* links of the ID Core group are those a build from scratch emits for the
\* current flags, whatever was edited and built before.
C8_TopologyFromConfigOnly ==
    rebuilds >= 1 =>
        /\ CoreExists
        /\ \A fresh \in {RebuildCoreTree(EmptyTree(CoreGroupName), TRUE, id_use)} :
              /\ Core.nodes = fresh.nodes
              /\ Core.links = fresh.links

\* a core rebuilt over the core of an earlier, different configuration
C8_Witness ==
    /\ CoreExists
    /\ refreshed
    /\ rebuilds >= 1
    /\ edits >= 1
    /\ \E i \in IDs : id_use[i]

\* the stages of every channel of the core, in order, take their masks from
\* the inputs of the channel's active ids in ascending order
CoreMatches(g, use) ==
    \A wg \in {Wired(g)} :
        \A c \in 1..4 :
            \A st \in {CoreStages(wg, c)} :
                [k \in 1..Len(st) |-> st[k].mask]
                    = [k \in 1..Len(ActiveSeq(c, use)) |->
                            SocketIndex(g.inputs, MaskName(ActiveSeq(c, use)[k]))]

\* C9 as claimed: once a flag has been changed, the stages of the core
\* (if there is one) correspond to the currently set flags.
C9_CoreFollowsFlags ==
    (edits >= 1 /\ CoreExists) => CoreMatches(Core, id_use)

\* C9 as the code has it: a flag edit leaves the ID Core group as it is, and
\* whenever Init Masks, Build Split or Add ID Mix has run since the last
\* flag edit the stages of the core correspond to the currently set flags.
C9_CoreFollowsFlagsAtBuilds ==
    [][ /\ (id_use' # id_use) => (node_groups' = node_groups)
        /\ (rebuilds' >= 1) => (CoreExists' /\ CoreMatches(Core', id_use'))
      ]_vars

\* a flag edited after a build: the core still has the stages of the flags
\* it was built for
C9_Witness ==
    /\ CoreExists
    /\ edits >= 1
    /\ rebuilds = 0
    /\ ~CoreMatches(Core, id_use)

\* the colour fed into interface input p of a chain: one colour per
\* position, so that no two inputs carry the same colour
ColorAt(p) == <<p * (One \div 10), One - p * (One \div 10), ((p * p) % 7) * (One \div 10)>>

\* the inputs of a chain of n entries: Base at position 1, the colour of
\* entry i at position 2i, its mask at position 2i + 1 with value a[i]
ChainInputs(n, a) ==
    [p \in 1..(2 * n + 1) |-> IF p > 1 /\ p % 2 = 1 THEN a[(p - 1) \div 2] ELSE ColorAt(p)]

\* v; for entry k, k+1, ... n: v = lerp(v, colour of the entry, mask of the entry)
RECURSIVE ChainFold(_, _, _, _)
ChainFold(v, env, k, n) ==
    IF k > n THEN v
    ELSE ChainFold(LerpColor(v, env[2 * k], env[2 * k + 1]), env, k + 1, n)

\* the chain group k computes the sequential lerp over its entries
ChainIsFold(k) ==
    \A wg \in {Wired(node_groups[k])}, n \in {mix_props.num_slots} :
        \A a \in [1..n -> MaskVals] :
            \A env \in {ChainInputs(n, a)} :
                GroupOut(wg, "Result", env) = ChainFold(env[1], env, 1, n)

\* the chain groups of Add ID Mix (Color) and of Add ID Mix (Normal): the
\* first input of the one is Base, of the other BaseColor
ColorChains == {k \in Chains : SocketIndex(node_groups[k].inputs, "Base") # 0}

NormalChains == {k \in Chains : SocketIndex(node_groups[k].inputs, "BaseColor") # 0}

\* the list in the dialog names no id twice
DistinctIds ==
    \A i, j \in 1..mix_props.num_slots : i # j => mix_props.ids[i] # mix_props.ids[j]

\* C10 as claimed: for every list of 1..4 ids, the chain Add ID Mix (Color)
\* builds computes v0 = Base, v_i = lerp(v_(i-1), colour input of the i-th
\* entry, mask input of the i-th entry), Result = v_N.
C10_ChainIsSequentialLerp ==
    \A k \in ColorChains : ChainIsFold(k)

\* C10 for the lists that name no id twice
C10_ChainOfDistinctIds ==
    DistinctIds => \A k \in ColorChains : ChainIsFold(k)

\* the packed colour fed into interface input p of a normal chain, one per
\* position
NormalColorAt(p) ==
    <<(p % 11) * (One \div 10), ((3 * p) % 11) * (One \div 10), ((p * p) % 7) * (One \div 10)>>

\* the space values explored: 0 (convention A), 1/2, 1 (convention B)
SpaceVals == {0, One \div 2, One}

\* the space assignments explored for a chain of n entries (0 is the base):
\* the same value everywhere, and one that changes from entry to entry
SpaceChoices(n) ==
    {[i \in 0..n |-> v] : v \in SpaceVals} \cup {[i \in 0..n |-> (i % 3) * (One \div 2)]}

\* the inputs of a normal chain of n entries: BaseColor and BaseSpace at
\* positions 1 and 2; the colour, the space and the mask of entry i at
\* positions 3i, 3i + 1 and 3i + 2
NormalInputs(n, sp, a) ==
    [p \in 1..(3 * n + 2) |->
        IF p = 1 THEN NormalColorAt(p)
        ELSE IF p = 2 THEN sp[0]
        ELSE IF p % 3 = 0 THEN NormalColorAt(p)
        ELSE IF p % 3 = 1 THEN sp[p \div 3]
        ELSE a[p \div 3]]

\* convention A decodes the packed colour; convention B decodes it with its
\* green component replaced by 1 - G
DecodeA(color) == NormalMapDecode(color)

DecodeB(color) == NormalMapDecode(<<color[1], One - color[2], color[3]>>)

PerInput(color, space) == LerpColor(DecodeA(color), DecodeB(color), space)

\* v; for entry k, k+1, ... n: v = lerp(v, perInput of the entry, mask of the entry)
RECURSIVE NormalFold(_, _, _, _)
NormalFold(v, env, k, n) ==
    IF k > n THEN v
    ELSE NormalFold(LerpColor(v, PerInput(env[3 * k], env[3 * k + 1]), env[3 * k + 2]),
                    env, k + 1, n)

\* C11: a chain built for a list of two different ids <<x, y>> delivers,
\* with both masks at 1, the input of y, the id listed last, whether x < y
\* or y < x: the colour fed to Color_ID<y> for a colour chain, the normal
\* of the colour and space fed to Color_ID<y> and Space_ID<y> for a normal
\* chain.
C11_CallerOrder ==
    (mix_props.num_slots = 2 /\ DistinctIds) =>
        \A y \in {mix_props.ids[2]} :
            /\ \A k \in ColorChains :
                  \A wg \in {Wired(node_groups[k])}, env \in {ChainInputs(2, [i \in 1..2 |-> One])} :
                      GroupOut(wg, "Result", env)
                          = env[SocketIndex(node_groups[k].inputs, ColorName(y))]
            /\ \A k \in NormalChains :
                  \A wg \in {Wired(node_groups[k])}, sp \in SpaceChoices(2) :
                      \A env \in {NormalInputs(2, sp, [i \in 1..2 |-> One])} :
                          GroupOut(wg, "Result", env)
                              = PerInput(env[SocketIndex(node_groups[k].inputs, ColorName(y))],
                                         env[SocketIndex(node_groups[k].inputs, SpaceName(y))])

\* a chain built for two ids listed in descending order, whose Result with
\* both masks at 1 is the input of the smaller id, listed last, and not
\* that of the larger
C11_Witness ==
    /\ mix_props.num_slots = 2
    /\ mix_props.ids[1] > mix_props.ids[2]
    /\ \E k \in ColorChains :
          \E wg \in {Wired(node_groups[k])}, env \in {ChainInputs(2, [i \in 1..2 |-> One])} :
              /\ GroupOut(wg, "Result", env)
                    = env[SocketIndex(node_groups[k].inputs, ColorName(mix_props.ids[2]))]
              /\ GroupOut(wg, "Result", env)
                    # env[SocketIndex(node_groups[k].inputs, ColorName(mix_props.ids[1]))]

\* the normal chain group k computes the sequential lerp over the normals
\* of its entries
NormalChainIsFold(k) ==
    \A wg \in {Wired(node_groups[k])}, n \in {mix_props.num_slots} :
        \A sp \in SpaceChoices(n), a \in [1..n -> MaskVals] :
            \A env \in {NormalInputs(n, sp, a)} :
                GroupOut(wg, "Result", env) = NormalFold(PerInput(env[1], env[2]), env, 1, n)

\* C12 as claimed: for every list of 1..4 ids, the chain Add ID Mix (Normal)
\* builds computes perInput = lerp(decodeA(colour), decodeB(colour), space)
\* for the base and for each entry, v0 = perInput of the base,
\* v_i = lerp(v_(i-1), perInput of the i-th entry, mask of the i-th entry),
\* and Result = v_N, the output of the last blend.
C12_NormalChainIsSequentialLerp ==
    \A k \in NormalChains : NormalChainIsFold(k)

\* C12 for the lists that name no id twice
C12_NormalChainOfDistinctIds ==
    DistinctIds => \A k \in NormalChains : NormalChainIsFold(k)

\* the nodes of a normal chain that decode by convention B: the Normal Map
\* nodes fed by a Combine RGB node
DXNodes(wg) ==
    {n \in 1..Len(wg.nodes) :
        /\ wg.nodes[n].kind = "NORMAL_MAP"
        /\ 1 \in DOMAIN wg.src[n]
        /\ wg.nodes[wg.src[n][1].fn].kind = "COMBRGB"}

\* the chain with the output of each convention-B decode replaced by a
\* vector: d for the decode of the base, d reversed for that of the first
\* entry, d for the second, and so on
WithDecodeB(wg, d) ==
    [wg EXCEPT !.nodes = [n \in 1..Len(wg.nodes) |->
        IF n \in DXNodes(wg)
        THEN GNode("VALUE", "", IF Cardinality({j \in DXNodes(wg) : j < n}) % 2 = 0
                                THEN d ELSE <<d[3], d[2], d[1]>>)
        ELSE wg.nodes[n]]]

\* vectors put in the place of the convention-B decodes
DecodeBChoices == {<<0, 0, 0>>, <<One, 0 - One, One \div 2>>, <<0 - One, One, One>>}

\* C13: with the space of the base and of every entry at 0, the Result of
\* a normal chain is the same whatever the convention-B decodes deliver:
\* replacing their outputs by arbitrary vectors leaves the Result as it is,
\* for every assignment of masks.
C13_SpaceZeroIgnoresDecodeB ==
    \A k \in NormalChains :
        \A wg \in {Wired(node_groups[k])}, n \in {mix_props.num_slots} :
            \A d \in DecodeBChoices :
                \A wd \in {WithDecodeB(wg, d)}, a \in [1..n -> MaskVals] :
                    \A env \in {NormalInputs(n, [i \in 0..n |-> 0], a)} :
                        GroupOut(wd, "Result", env) = GroupOut(wg, "Result", env)

\* a normal chain of two or more entries with a convention-B decode for
\* the base and each entry, whose Result does depend on those decodes once
\* the spaces are 1
C13_Witness ==
    \E k \in NormalChains :
        \E wg \in {Wired(node_groups[k])}, n \in {mix_props.num_slots} :
            /\ n >= 2
            /\ DistinctIds
            /\ Cardinality(DXNodes(wg)) = n + 1
            /\ \E env \in {NormalInputs(n, [i \in 0..n |-> One], [i \in 1..n |-> One \div 2])},
                  wd \in {WithDecodeB(wg, <<One, 0 - One, One \div 2>>)} :
                    GroupOut(wd, "Result", env) # GroupOut(wg, "Result", env)

\* the links of the material that enter the ID Core node
LinksIntoCore(w) == {l \in w.nt.links : l.tn = get_id_core_node(w)}

\* this step created a mix-chain group
ChainAdded == Cardinality(Chains') > Cardinality(Chains)

\* the chain groups there were are all as they were
ChainsKept == \A k \in Chains : k \in Chains' /\ node_groups'[k] = node_groups[k]

\* C14 as claimed: a step that creates a mix chain leaves every chain group
\* there was unchanged and, if there is an ID Core group, leaves its nodes,
\* links and interface and the material's links into the ID Core node
\* unchanged.
C14_ChainLeavesCoreAlone ==
    [][ ChainAdded =>
            /\ ChainsKept
            /\ CoreExists => (Core' = Core /\ LinksIntoCore(World') = LinksIntoCore(World))
      ]_vars

\* C14 as the code has it: a step that creates a mix chain leaves every
\* chain group there was unchanged and rebuilds the core: afterwards the ID
\* Core group has the nodes and links a build emits for the current flags,
\* an existing group keeps its interface, each IDxx_Mask input of the ID
\* Core node is linked from the image node of xx and from nothing else, and
\* the group and those links are as before if a build has run since the
\* last flag edit.
C14_ChainRebuildsCore ==
    [][ ChainAdded =>
            /\ ChainsKept
            /\ CoreExists'
            /\ \A fresh \in {RebuildCoreTree(EmptyTree(CoreGroupName), TRUE, id_use)} :
                  /\ Core'.nodes = fresh.nodes
                  /\ Core'.links = fresh.links
            /\ CoreExists => (Core'.inputs = Core.inputs /\ Core'.outputs = Core.outputs)
            /\ LinksIntoCore(World')
                  = {Link(id_image_name(i), 0, get_id_core_node(World'),
                          SocketIndex(Core'.inputs, MaskName(i))) : i \in IDs}
            /\ (CoreExists /\ rebuilds >= 1) =>
                  (Core' = Core /\ LinksIntoCore(World') = LinksIntoCore(World))
      ]_vars

\* the last step was an Add ID Mix that found a chain group and a core built
\* before the last flag edit
C14_Witness ==
    /\ mix_found.stale
    /\ mix_found.chains >= 1
    /\ Cardinality(Chains) = mix_found.chains + 1
    /\ rebuilds = 1
    /\ edits >= 1

\* the group nodes of the material that instance a mix chain
InstanceNodes(tree) ==
    {k \in 1..Len(tree.nodes) :
        tree.nodes[k].kind = "GROUP" /\ tree.nodes[k].tree # CoreGroupName}

\* the interface inputs of a chain of either kind for the list ids
KeyInputs(ids) ==
    {ColorMixInterface(EmptyTree(""), ids).inputs, NormalMixInterface(EmptyTree(""), ids).inputs}

\* C15: no step removes, replaces or modifies a chain group there is; and
\* every Add ID Mix request gets a chain group of its own: a new group,
\* under a name no group had, with the interface of the requested kind and
\* list, instanced by the new node of the material and by no other node.
C15_OwnPersistentChain ==
    [][ /\ ChainsKept
        /\ Len(node_groups') >= Len(node_groups)
        /\ InstanceNodes(nt') # InstanceNodes(nt) =>
              \A last \in {Len(node_groups')}, node \in {Len(nt'.nodes)} :
                  /\ Chains' = Chains \cup {last}
                  /\ last \notin Chains
                  /\ node_groups'[last].name \notin Names(node_groups)
                  /\ node_groups'[last].inputs \in KeyInputs(MixUsedIds(mix_props))
                  /\ InstanceNodes(nt') = InstanceNodes(nt) \cup {node}
                  /\ nt'.nodes[node].tree = node_groups'[last].name
                  /\ \A k \in InstanceNodes(nt) : nt'.nodes[k].tree # node_groups'[last].name
      ]_vars

\* two color chains requested for the same two ids in the two orders, each
\* a group of its own with its own instance node
C15_Witness ==
    \E k1, k2 \in ColorChains :
        /\ k1 < k2
        /\ node_groups[k1].inputs # node_groups[k2].inputs
        /\ Range(node_groups[k1].inputs) = Range(node_groups[k2].inputs)
        /\ node_groups[k1].name # node_groups[k2].name
        /\ \E n1, n2 \in InstanceNodes(nt) :
              /\ n1 # n2
              /\ nt.nodes[n1].tree = node_groups[k1].name
              /\ nt.nodes[n2].tree = node_groups[k2].name

\* C16 as claimed: a step in which Build Split ends with an error raised in
\* the core rebuild leaves an ID Core group that was there with the nodes
\* and links it had.
C16_FailedRebuildKeepsCore ==
    [][ (report' = "ERROR" /\ CoreExists) => (CoreExists' /\ Core' = Core) ]_vars

\* the names a chain interface may hold: Base, BaseColor, BaseSpace, and
\* Color_IDxx, Space_IDxx, Mask_IDxx for xx in 01..16
ChainSocketNames ==
    {"Base", "BaseColor", "BaseSpace"}
        \cup {ColorName(i) : i \in IDs} \cup {SpaceName(i) : i \in IDs}
        \cup {MixMaskName(i) : i \in IDs}

\* every link of group g that leaves its Group Input node leaves it at a
\* socket of the interface
InputLinksOK(g) ==
    \A l \in g.links : g.nodes[l.fn].kind = "GROUP_INPUT" => l.fs \in 1..Len(g.inputs)

MapIdsOf(ch) ==
    LET InCh(i) == ID_CHANNEL_MAP[i][1] = ch
    IN  SelectSeq([i \in 1..NumIDs |-> i], InCh)

\* C19: ID_CHANNEL_MAP is defined on exactly 1..16 and gives id the channel
\* at position (id-1) div 4 of [R, G, B, A] and the slot ((id-1) mod 4) + 1;
\* each channel owns exactly the slots 1..4; the id lists of
\* compute_id_ranges and of the four build_channel_value calls are the ids
\* the map gives to the channel, so the split Build Split stores by the map
\* counts the set flags of each build_channel_value call.
C19_ChannelMapAgrees ==
    /\ DOMAIN ID_CHANNEL_MAP = 1..16
    /\ \A id \in 1..16 :
          ID_CHANNEL_MAP[id] = << <<"R", "G", "B", "A">>[((id - 1) \div 4) + 1], ((id - 1) % 4) + 1 >>
    /\ \A ch \in {"R", "G", "B", "A"} :
          /\ {ID_CHANNEL_MAP[id][2] : id \in Range(MapIdsOf(ch))} = 1..4
          /\ Len(MapIdsOf(ch)) = 4
          /\ ChannelIdList(ch) = MapIdsOf(ch)
          /\ CoreChannelIds(ch) = MapIdsOf(ch)
    /\ report = "INFO" =>
          \A c \in 1..4 :
              split_rgba[c] = Cardinality({i \in Range(CoreChannelIds(ChannelNames[c])) : id_use[i]})

\* a core was built for a configuration with set flags in two channels, and
\* the split stored for it counts them by the map
C19_Witness ==
    /\ CoreExists
    /\ rebuilds >= 1
    /\ Cardinality({ID_CHANNEL_MAP[i][1] : i \in {j \in IDs : id_use[j]}}) >= 2
    /\ split_rgba = compute_split_from_flags(id_use)

\* C20: the split computed from the flags has every component in 0..4; each
\* component is the number of set flags among the four ids of its channel,
\* the length of the used_ids list compute_id_ranges selects the preset by;
\* the components sum to the number of set flags; and Build Split stores
\* this split in split_rgba.
C20_SplitCountsFlags ==
    LET split == compute_split_from_flags(id_use)
    IN  /\ \A c \in 1..4 :
              /\ split[c] \in 0..4
              /\ split[c] = Cardinality({i \in Range(ChannelIdList(ChannelNames[c])) : id_use[i]})
              /\ split[c] = Len(UsedIds(ChannelIdList(ChannelNames[c]), id_use))
        /\ split[1] + split[2] + split[3] + split[4] = Cardinality({i \in IDs : id_use[i]})
        /\ report = "INFO" => split_rgba = split

\* Build Split has stored the split of a configuration with a full channel
C20_Witness ==
    /\ report = "INFO"
    /\ \E c \in 1..4 : split_rgba[c] = 4 /\ \A i \in Range(ChannelIdList(ChannelNames[c])) : id_use[i]

\* the positions of the nodes of the material of this kind
NodesOfKind(kind) == {k \in 1..Len(nt.nodes) : nt.nodes[k].kind = kind}

\* the group nodes of the material that instance the ID Core group
CoreNodes == {k \in NodesOfKind("GROUP") : nt.nodes[k].tree = CoreGroupName}

\* C21: once the ID Core group is built, the material has exactly one group
\* node of it; each IDxx_Mask input of that node has exactly one incoming
\* link, from the Color output of the image node of xx; there are exactly
\* 16 image nodes and 16 images, one per id, and one ID System frame.
C21_OneCoreNodeWiredOnce ==
    CoreExists =>
        /\ Cardinality(CoreNodes) = 1
        /\ \A c \in CoreNodes :
              /\ \A i \in IDs :
                    {l \in nt.links : l.tn = nt.nodes[c].name
                                        /\ l.ts = SocketIndex(Core.inputs, MaskName(i))}
                        = {Link(id_image_name(i), 0, nt.nodes[c].name,
                                SocketIndex(Core.inputs, MaskName(i)))}
              /\ Cardinality({l \in nt.links : l.tn = nt.nodes[c].name}) = NumIDs
        /\ \A i \in IDs :
              Cardinality({k \in NodesOfKind("TEX_IMAGE") : nt.nodes[k].name = id_image_name(i)}) = 1
        /\ Cardinality(NodesOfKind("TEX_IMAGE")) = NumIDs
        /\ Cardinality(images) = NumIDs
        /\ Cardinality(NodesOfKind("FRAME")) = 1

\* a flag was edited, a chain was added, and the core was built at least
\* twice since the edit
C21_Witness ==
    /\ CoreExists
    /\ Chains # {}
    /\ edits >= 1
    /\ rebuilds = 2

\* the group a group node of the material instances
TreeOf(k) == node_groups[GroupsGet(node_groups, nt.nodes[k].tree)]

MaskSet(m, j, v) == [m EXCEPT ![j] = v]

\* C23: all 16 mask inputs are present whatever the flags are; and for every
\* channel c, every assignment of masks to the active ids of c and every id
\* j that is not one of them (inactive, or of another channel), raising the
\* mask of j from 0 to 1 changes no value of channel c; it changes the
\* pass-through output of j, which follows the mask.
C23_ChannelReadsOwnActiveIdsOnly ==
    CoreExists =>
        /\ \A i \in IDs : SocketIndex(Core.inputs, MaskName(i)) # 0
        /\ Len(Core.inputs) = NumIDs
        /\ \A wg \in {Wired(Core)}, t \in {ActiveTable(id_use)} :
              \A c \in 1..4 :
                \A a \in [Range(t[c].ids) -> MaskVals] :
                  \A m \in {Masks(a, 0)} :
                    \A v \in {ChannelValue(wg, c, m)} :
                      \A j \in IDs \ Range(t[c].ids) :
                        \A m2 \in {MaskSet(m, j, One)} :
                            /\ ChannelValue(wg, c, m2) = v
                            /\ GroupOut(wg, MaskName(j), m2) = One
                            /\ GroupOut(wg, MaskName(j), m) = 0

\* a core built for a configuration with active ids in two channels and an
\* inactive id in a channel that has an active one, whose value is not 0
C23_Witness ==
    /\ CoreExists
    /\ rebuilds >= 1
    /\ ActiveIn(1, id_use) # {}
    /\ ActiveIn(2, id_use) # {}
    /\ \E i \in 1..4 : ~id_use[i]
    /\ ChannelValue(Wired(Core), 1, [i \in IDs |-> One]) # 0

\* C24: whenever the ID Core group is built, split_rgba[c] is the number of
\* override stages of channel c in it, for each of the four channels.
C24_SplitIsStageCount ==
    CoreExists =>
        \A wg \in {Wired(Core)} :
            \A c \in 1..4 : split_rgba[c] = Len(CoreStages(wg, c))

\* the inputs before the first entry, and the inputs of one entry, of chain k
BaseInputs(k) == IF k \in ColorChains THEN 1 ELSE 2

EntryInputs(k) == IF k \in ColorChains THEN 2 ELSE 3

\* C25: a chain built for a list of N ids has, after its base inputs, one
\* input set per list position (Color and Mask, and Space between them for
\* Normal); stage i, the i-th of the N blend nodes that end the chain, takes
\* its factor from the Mask input of position i (and, for Color, its second
\* colour from the Color input of position i); and every input of the
\* interface is read by a link of the group.
C25_EntryPerPosition ==
    \A k \in Chains :
        LET g == node_groups[k]
            N == Len(MixUsedIds(mix_props))
            Stage(i) == Len(g.nodes) - N + i
            First(i) == BaseInputs(k) + EntryInputs(k) * (i - 1) + 1
            Last(i) == BaseInputs(k) + EntryInputs(k) * i
        IN  /\ Len(g.inputs) = BaseInputs(k) + EntryInputs(k) * N
            /\ \A i \in 1..N :
                  /\ g.nodes[Stage(i)].kind = "MIX_RGB"
                  /\ Link(1, Last(i), Stage(i), 0) \in g.links
                  /\ k \in ColorChains => Link(1, First(i), Stage(i), 2) \in g.links
            /\ \A j \in 1..Len(g.inputs) : \E l \in g.links : l.fn = 1 /\ l.fs = j

\* C25 for the lists without a repeated id
C25_EntryPerPositionOfDistinctIds ==
    DistinctIds => C25_EntryPerPosition

\* the links of the material into socket ts of the node called name
LinksInto(name, ts) == {l \in nt.links : l.tn = name /\ l.ts = ts}

\* the nodes of the material asked to be called base: base, base.001, ...
NodesNamed(base) ==
    {k \in 1..Len(nt.nodes) :
        nt.nodes[k].name = base
            \/ \E j \in 1..Len(nt.nodes) : nt.nodes[k].name = base \o "." \o Pad3(j)}

\* C28: the material holds at most one preview BSDF, at most one preview
\* output and at most one ID_Paint_Mix node; a preview output there is has
\* exactly one link into Surface, from the preview BSDF; a preview BSDF
\* there is has exactly one link into Base Color, from the ID_Paint_Mix
\* node; and the ID_Paint_Mix node has at most one link into its factor.
C28_OnePreviewChain ==
    /\ Cardinality(NodesNamed("IDTEMP_Principled")) <= 1
    /\ Cardinality(NodesNamed("IDTEMP_Output")) <= 1
    /\ Cardinality(NodesNamed("ID_Paint_Mix")) <= 1
    /\ Cardinality({k \in NodesOfKind("BSDF_PRINCIPLED") : nt.nodes[k].label = "ID Paint Preview"}) <= 1
    /\ Cardinality({k \in NodesOfKind("OUTPUT_MATERIAL") : nt.nodes[k].label = "ID Paint Output"}) <= 1
    /\ Cardinality({k \in NodesOfKind("MIX_RGB") : nt.nodes[k].label = "ID Paint Mix"}) <= 1
    /\ \A k \in NodesNamed("IDTEMP_Output") :
          /\ nt.nodes[k].name = paint.temp_output_name
          /\ LinksInto(nt.nodes[k].name, 0) = {Link(paint.temp_bsdf_name, 0, nt.nodes[k].name, 0)}
    /\ \A k \in NodesNamed("IDTEMP_Principled") :
          /\ nt.nodes[k].name = paint.temp_bsdf_name
          /\ LinksInto(nt.nodes[k].name, 0) = {Link("ID_Paint_Mix", 0, nt.nodes[k].name, 0)}
    /\ Cardinality(LinksInto("ID_Paint_Mix", 0)) <= 1

\* Set Active Paint ID has run for id 1 and then for id 2 (or the other way
\* round): both images exist, and the preview chain is in place
C28_Witness ==
    /\ {id_image_name(1), id_image_name(2)} \subseteq images
    /\ paint.temp_bsdf_name # ""
    /\ NodesNamed("ID_Paint_Mix") # {}
    /\ paint.canvas = id_image_name(2)
    /\ LinksInto("ID_Paint_Mix", 0) = {Link(id_image_name(2), 0, "ID_Paint_Mix", 0)}
    /\ ~CoreExists

\* C29: a Set Active Paint ID run with NONE leaves none of the preview BSDF,
\* the preview output and the ID_Paint_Mix node in the material, leaves
\* temp_bsdf_name, temp_output_name and prev_output_name empty, and leaves
\* the output node that was recorded the active node.
C29_NoneRestoresShader ==
    [][ (ctx_mat /\ paint.active_paint_id = "NONE" /\ SetPaintID) =>
            /\ NodesNamed("IDTEMP_Principled")' = {}
            /\ NodesNamed("IDTEMP_Output")' = {}
            /\ NodesNamed("ID_Paint_Mix")' = {}
            /\ paint'.temp_bsdf_name = ""
            /\ paint'.temp_output_name = ""
            /\ paint'.prev_output_name = ""
            /\ paint.prev_output_name # "" => nt'.active = paint.prev_output_name
      ]_vars

\* C29 without the ID_Paint_Mix node
C29_NoneRemovesPreviewNodes ==
    [][ (ctx_mat /\ paint.active_paint_id = "NONE" /\ SetPaintID) =>
            /\ NodesNamed("IDTEMP_Principled")' = {}
            /\ NodesNamed("IDTEMP_Output")' = {}
            /\ paint'.temp_bsdf_name = ""
            /\ paint'.temp_output_name = ""
            /\ paint'.prev_output_name = ""
            /\ paint.prev_output_name # "" => nt'.active = paint.prev_output_name
      ]_vars

\* C26: a run of Init Masks, Build Split, Set Active Paint ID, Add ID Mix
\* (Color) or Add ID Mix (Normal) that finds no active material reports an
\* error and changes no node, link, node group, image or setting.
C26_NoMaterialChangesNothing ==
    [][ (~ctx_mat /\ (InitMasks \/ BuildSplit \/ SetPaintID \/ AddIDMixColor \/ AddIDMixNormal)) =>
            /\ report' = "ERROR"
            /\ UNCHANGED <<id_use, split_rgba, node_groups, nt, images, mix_props, paint>>
      ]_vars

\* an operator has found no active material, on a material that has a core
\* and a preview chain, a flag edited since the split was stored and a
\* paint id picked
C26_Witness ==
    /\ ~ctx_mat
    /\ report = "ERROR"
    /\ CoreExists
    /\ split_rgba # compute_split_from_flags(id_use)
    /\ paint.temp_bsdf_name # ""
    /\ paint.active_paint_id = "NONE"


(***************************************************************************)
(* C27                                                                     *)
(***************************************************************************)

\* the nodes of group g that carry a channel value: the base Value node of
\* a channel and the ADD node that ends each stage
StageOutputs(g) ==
    {n \in 1..Len(g.nodes) :
        \/ g.nodes[n].kind = "VALUE"
        \/ g.nodes[n].kind = "MATH" /\ g.nodes[n].op = "ADD"}

UnitRange == 0..One

\* C27: for every configuration and every assignment of masks in [0, 1],
\* each channel value the core computes, at the start of the fold, after
\* every stage and at the RGB_ID and Alpha_ID outputs, lies in [0, 1].
C27_ChannelValuesInUnitRange ==
    CoreExists =>
        \A wg \in {Wired(Core)}, t \in {ActiveTable(id_use)}, outs \in {StageOutputs(Core)} :
            \A c \in 1..4 :
                \A a \in [Range(t[c].ids) -> MaskVals], f \in MaskVals :
                    \A m \in {Masks(a, f)} :
                        /\ ChannelValue(wg, c, m) \in UnitRange
                        /\ \A n \in outs : Out(wg, n, 0, m) \in UnitRange

\* a core whose first channel folds three stages, the last of which is
\* reached with a value strictly between 0 and 1
C27_Witness ==
    /\ CoreExists
    /\ rebuilds >= 1
    /\ Cardinality(ActiveIn(1, id_use)) = 3
    /\ Cardinality({n \in StageOutputs(Core) : Core.nodes[n].kind = "MATH"}) = 3
    /\ \E m \in {[i \in IDs |-> One \div 2]} :
          /\ ChannelValue(Wired(Core), 1, m) \in 1..(One - 1)
          /\ \E n \in StageOutputs(Core) :
                Out(Wired(Core), n, 0, m) \notin {0, ChannelValue(Wired(Core), 1, m)}

(***************************************************************************)
(* C30                                                                     *)
(***************************************************************************)

\* the visibility of the modifiers m, without their types
Shown(m) == [key \in DOMAIN m |-> <<m[key].show_viewport, m[key].show_render>>]

\* C30 as stated: after k >= 1 consecutive Snapshot & Pause runs and one
\* Restore, under unchanged settings, every modifier's show_viewport and
\* show_render equal their values before the first Snapshot & Pause.
C30_RestoresBeforeFirstPause ==
    pause_hist.restored => Shown(mods) = Shown(pause_hist.first)

\* C30, amended: after k >= 1 consecutive Snapshot & Pause runs and one
\* Restore, under unchanged settings, every modifier's show_viewport and
\* show_render equal their values before the last Snapshot & Pause.
C30_RestoresBeforeLastPause ==
    pause_hist.restored => Shown(mods) = Shown(pause_hist.last)

\* a Restore after two consecutive Snapshot & Pause runs, the first of which
\* hid a modifier in the viewport and the second of which left one visible
\* in renders
C30_Witness ==
    /\ pause_hist.restored
    /\ pause_hist.k >= 2
    /\ \E key \in DOMAIN mods : pause_hist.first[key].show_viewport /\ ~mods[key].show_viewport
    /\ \E key \in DOMAIN mods : pause_hist.last[key].show_render /\ mods[key].show_render

====
